---- MODULE Spec2Model ----
(***************************************************************************)
(* A model of the probe engine of librdap-storm (mikalv/dqcli):            *)
(* Prober::probe_one, EndpointRegistry, EndpointRateLimiters, check_rdap   *)
(* and check_whois, run by several tasks that share one registry and one   *)
(* limiter map through clones of a Prober.                                 *)
(*                                                                         *)
(* Strings are sequences of one-character strings, so that rsplit,         *)
(* to_lowercase, trim_end_matches and contains are computed, not assumed.  *)
(* A text built by format! is a sequence of string pieces.                 *)
(***************************************************************************)
EXTENDS Integers, Sequences, FiniteSets, TLC

\* ---------------------------------------------------------------- bounds

\* GETs of the bootstrap document sent in one run.
MaxFetches == 3
\* Largest max_rate_per_endpoint a configuration is drawn with (0 included).
MaxRate == 2
\* config.timeout, in ticks of the limiter's replenish interval.
Timeout == 1
\* Ticks a call is followed for while it waits in until_ready.
MaxWait == 2
\* Longest input given to probe_stream.
MaxInputs == 11
\* Largest max_concurrent_per_endpoint a stream is made with (0 included).
MaxConcurrent == 1
\* Most lines of a response to the GET of the IANA TLD list.
MaxLines == 2
\* Longest TLD list handed to apply_config_to_tlds.
MaxTlds == 2
\* Longest query typed into the TUI.
MaxQuery == 2
\* Searches started in one run of the TUI.
MaxSearches == 2
\* Largest index the selection of the TUI's list is followed to.
MaxSelected == 2

\* The tasks that call probe_one, each any number of times: the owner of the
\* Prober and the task that was given a clone of it.
Tasks == {1, 2}

\* ---------------------------------------------------------------- strings

UpperLetters == <<"A","B","C","D","E","F","G","H","I","J","K","L","M",
                  "N","O","P","Q","R","S","T","U","V","W","X","Y","Z">>
LowerLetters == <<"a","b","c","d","e","f","g","h","i","j","k","l","m",
                  "n","o","p","q","r","s","t","u","v","w","x","y","z">>

\* char::to_lowercase on the ASCII range.
LowerChar(c) ==
    IF \E i \in 1..26 : UpperLetters[i] = c
    THEN LowerLetters[CHOOSE i \in 1..26 : UpperLetters[i] = c]
    ELSE c

\* str::to_lowercase
to_lowercase(s) == [i \in 1..Len(s) |-> LowerChar(s[i])]

\* s.rsplit('.').next(): the part after the last '.', the whole string when
\* there is no '.'; always Some.
RECURSIVE rsplit_next(_)
rsplit_next(s) ==
    IF s = <<>> THEN <<>>
    ELSE IF s[Len(s)] = "." THEN <<>>
    ELSE Append(rsplit_next(SubSeq(s, 1, Len(s) - 1)), s[Len(s)])

\* A trim that takes one trailing '/' only.
trim_one_slash(s) ==
    IF s # <<>> /\ s[Len(s)] = "/" THEN SubSeq(s, 1, Len(s) - 1) ELSE s

\* url.trim_end_matches('/')
RECURSIVE trim_end_matches_slash(_)
trim_end_matches_slash(s) ==
    IF s # <<>> /\ s[Len(s)] = "/"
    THEN trim_end_matches_slash(SubSeq(s, 1, Len(s) - 1))
    ELSE s

\* haystack.contains(needle)
contains(hay, needle) ==
    \E i \in 1..(Len(hay) - Len(needle) + 1) :
        SubSeq(hay, i, i + Len(needle) - 1) = needle

\* u16 -> decimal text, as format!("{}", n) prints it.
DigitChars == <<"0","1","2","3","4","5","6","7","8","9">>
RECURSIVE Decimal(_)
Decimal(n) ==
    IF n < 10 THEN <<DigitChars[n + 1]>>
    ELSE Append(Decimal(n \div 10), DigitChars[(n % 10) + 1])

\* ---------------------------------------------------------------- types.rs

Available == [kind |-> "Available", reason |-> <<>>]
Taken == [kind |-> "Taken", reason |-> <<>>]
Unknown(reason) == [kind |-> "Unknown", reason |-> reason]

is_unknown(a) == a.kind = "Unknown"

\* ---------------------------------------------------------------- endpoint.rs

\* EndpointError's Display (thiserror #[error] attributes).
FetchErrorText(e) == <<"Failed to fetch IANA bootstrap: ">> \o e
InvalidDomainText(d) == <<"Invalid domain format: ">> \o d

\* extract_tld: Ok(tld) or Err(InvalidDomain(domain)).
extract_tld(domain) ==
    LET last == rsplit_next(domain)
    IN  IF last # <<>>
        THEN [ok |-> TRUE, tld |-> to_lowercase(last), err |-> <<>>]
        ELSE [ok |-> FALSE, tld |-> <<>>, err |-> InvalidDomainText(domain)]

\* An insert that keeps the value of an existing key (not DashMap's).
MapInsertFirstWins(m, k, v) ==
    IF k \in DOMAIN m THEN m ELSE [x \in DOMAIN m \cup {k} |-> IF x = k THEN v ELSE m[x]]

\* DashMap::insert: the value of an existing key is replaced.
MapInsert(m, k, v) ==
    [x \in DOMAIN m \cup {k} |-> IF x = k THEN v ELSE m[x]]

EmptyMap == [x \in {} |-> <<>>]

\* The inserts of bootstrap's loop over resp.services, in order: for each
\* service with a first url, one insert per tld of (tld.to_lowercase(),
\* url.trim_end_matches('/')).
ServiceInserts(service) ==
    LET tlds == service[1]
        urls == service[2]
    IN  IF urls = <<>> THEN <<>>
        ELSE [i \in 1..Len(tlds) |->
                [key |-> to_lowercase(tlds[i]),
                 value |-> trim_end_matches_slash(urls[1])]]

RECURSIVE BootstrapInserts(_)
BootstrapInserts(services) ==
    IF services = <<>> THEN <<>>
    ELSE ServiceInserts(Head(services)) \o BootstrapInserts(Tail(services))

\* The lookup of a registry of its own, which no bootstrap has filled.
get_endpoint_of_fresh_registry(endpoints, tld) == [some |-> FALSE, url |-> <<>>]

\* A lookup with the tld as it was passed.
get_endpoint_exact_case(endpoints, tld) ==
    IF tld \in DOMAIN endpoints
    THEN [some |-> TRUE, url |-> endpoints[tld]]
    ELSE [some |-> FALSE, url |-> <<>>]

\* EndpointRegistry::get_endpoint
get_endpoint(endpoints, tld) ==
    LET k == to_lowercase(tld)
    IN  IF k \in DOMAIN endpoints
        THEN [some |-> TRUE, url |-> endpoints[k]]
        ELSE [some |-> FALSE, url |-> <<>>]

\* ---------------------------------------------------------------- rdap.rs

\* The arms for 404 and 200 exchanged.
check_rdap_verdict_swapped(outcome) ==
    CASE outcome.kind = "timeout" -> Unknown(<<"Timeout">>)
      [] outcome.kind = "error" -> Unknown(<<"Request failed: ">> \o outcome.err)
      [] outcome.kind = "http" /\ outcome.status = 200 -> Available
      [] outcome.kind = "http" /\ outcome.status = 404 -> Taken
      [] outcome.kind = "http" /\ outcome.status = 429 -> Unknown(<<"Rate limited">>)
      [] OTHER -> Unknown(<<"HTTP ">> \o Decimal(outcome.status))

\* check_rdap's match on the outcome of timeout(client.get(url).send()).
check_rdap_verdict(outcome) ==
    CASE outcome.kind = "timeout" -> Unknown(<<"Timeout">>)
      [] outcome.kind = "error" -> Unknown(<<"Request failed: ">> \o outcome.err)
      [] outcome.kind = "http" /\ outcome.status = 404 -> Available
      [] outcome.kind = "http" /\ outcome.status = 200 -> Taken
      [] outcome.kind = "http" /\ outcome.status = 429 -> Unknown(<<"Rate limited">>)
      [] OTHER -> Unknown(<<"HTTP ">> \o Decimal(outcome.status))

\* ---------------------------------------------------------------- whois.rs

WhoisServers ==
    { <<"c","o","m">>, <<"n","e","t">>, <<"o","r","g">>, <<"i","o">>,
      <<"d","e","v">>, <<"a","p","p">>, <<"a","i">>, <<"c","o">>, <<"m","e">> }

\* The tld check_whois derives from the domain: rsplit('.').next(), lowercased.
whois_tld(domain) == to_lowercase(rsplit_next(domain))

has_whois_server(domain) == whois_tld(domain) \in WhoisServers

\* The reason with the tld as the caller wrote it.
NoWhoisServerCaseKept(domain) == Unknown(<<"No WHOIS server for .">> \o rsplit_next(domain))

\* The default arm of the match on the tld: no connection is opened.
NoWhoisServer(domain) == Unknown(<<"No WHOIS server for .">> \o whois_tld(domain))

FreeMarkers ==
    { <<"n","o"," ","m","a","t","c","h">>,
      <<"n","o","t"," ","f","o","u","n","d">>,
      <<"n","o"," ","d","a","t","a"," ","f","o","u","n","d">>,
      <<"n","o"," ","e","n","t","r","i","e","s"," ","f","o","u","n","d">> }

TakenMarkers ==
    { <<"d","o","m","a","i","n"," ","n","a","m","e",":">>,
      <<"r","e","g","i","s","t","r","a","r",":">> }

\* A match that looks for the registration markers first.
check_whois_verdict_taken_first(outcome) ==
    CASE outcome.kind = "timeout" -> Unknown(<<"WHOIS timeout">>)
      [] outcome.kind = "error" -> Unknown(<<"WHOIS error: ">> \o outcome.err)
      [] OTHER ->
            LET lower == to_lowercase(outcome.text)
            IN  IF \E m \in TakenMarkers : contains(lower, m) THEN Taken
                ELSE IF \E m \in FreeMarkers : contains(lower, m) THEN Available
                ELSE Unknown(<<"Ambiguous WHOIS response">>)

\* check_whois's match on the outcome of timeout(connect, write, read).
check_whois_verdict(outcome) ==
    CASE outcome.kind = "timeout" -> Unknown(<<"WHOIS timeout">>)
      [] outcome.kind = "error" -> Unknown(<<"WHOIS error: ">> \o outcome.err)
      [] OTHER ->
            LET lower == to_lowercase(outcome.text)
            IN  IF \E m \in FreeMarkers : contains(lower, m) THEN Available
                ELSE IF \E m \in TakenMarkers : contains(lower, m) THEN Taken
                ELSE Unknown(<<"Ambiguous WHOIS response">>)

\* ---------------------------------------------------------------- ratelimit.rs

\* RateLimiter::direct(Quota::per_second(rate)): a token bucket whose burst
\* size is the rate, full when created.  The state is the number of cells the
\* bucket holds; one tick is the replenish interval, 1/rate second.
NewLimiter(rate) == rate

\* A bucket without a burst size: cells pile up while it is idle.
ReplenishUncapped(cells, rate) == cells + 1

\* One replenish interval passes: one cell comes back, up to the burst size.
Replenish(cells, rate) == IF cells < rate THEN cells + 1 ELSE cells

\* until_ready: the call returns once the bucket holds a cell, and takes it.
LimiterReady(cells) == cells > 0

\* One second, in ticks.
OneSecond(rate) == rate

\* ---------------------------------------------------------------- tlds.rs

LF == "\n"
CR == "\r"

\* char::is_whitespace, on the characters that occur.
WhiteSpace == {" ", "\t", LF, CR}

starts_with(s, prefix) ==
    Len(s) >= Len(prefix) /\ SubSeq(s, 1, Len(prefix)) = prefix

\* str::lines: the text is cut after every "\n"; the "\n" and a "\r" before
\* it are taken off; a last line without "\n" is a line, an empty rest is not.
RECURSIVE lines(_)
lines(s) ==
    IF s = <<>> THEN <<>>
    ELSE LET nl == {i \in 1..Len(s) : s[i] = LF}
         IN  IF nl = {} THEN <<s>>
             ELSE LET i == CHOOSE k \in nl : \A j \in nl : k <= j
                      raw == SubSeq(s, 1, i - 1)
                      line == IF raw # <<>> /\ raw[Len(raw)] = CR
                              THEN SubSeq(raw, 1, Len(raw) - 1) ELSE raw
                  IN  <<line>> \o lines(SubSeq(s, i + 1, Len(s)))

RECURSIVE trim_start(_)
trim_start(s) ==
    IF s # <<>> /\ s[1] \in WhiteSpace THEN trim_start(Tail(s)) ELSE s

RECURSIVE trim_end(_)
trim_end(s) ==
    IF s # <<>> /\ s[Len(s)] \in WhiteSpace
    THEN trim_end(SubSeq(s, 1, Len(s) - 1)) ELSE s

\* str::trim
trim(s) == trim_start(trim_end(s))

Punycode == <<"x", "n", "-", "-">>

\* The chain of fetch_iana_tlds on the text of the response: lines, filter on
\* the raw line, map to the trimmed lowercased line, filter on the entry.
tlds_of_text(text) ==
    LET kept == SelectSeq(lines(text),
                          LAMBDA line : ~starts_with(line, <<"#">>) /\ line # <<>>)
        mapped == [i \in 1..Len(kept) |-> to_lowercase(trim(kept[i]))]
    IN  SelectSeq(mapped, LAMBDA tld : ~starts_with(tld, Punycode))

\* fetch_iana_tlds: Err(FetchError) when send() or text() fails.
fetch_iana_tlds(response) ==
    IF response.kind = "text"
    THEN [ok |-> TRUE, tlds |-> tlds_of_text(response.text)]
    ELSE [ok |-> FALSE, tlds |-> <<>>]

\* ---------------------------------------------------------------- main.rs

\* apply_config_to_tlds: the tlds of never are taken out, then each tld of
\* always that is not in the list is put in front, last one first.
RECURSIVE insert_always(_, _)
insert_always(tlds, always) ==
    IF always = <<>> THEN tlds
    ELSE LET lower == to_lowercase(always[Len(always)])
             rest == SubSeq(always, 1, Len(always) - 1)
         IN  IF \E i \in 1..Len(tlds) : to_lowercase(tlds[i]) = lower
             THEN insert_always(tlds, rest)
             ELSE insert_always(<<lower>> \o tlds, rest)

apply_config_to_tlds(tlds, cfg) ==
    LET never_set == {to_lowercase(cfg.never[i]) : i \in 1..Len(cfg.never)}
        retained == SelectSeq(tlds, LAMBDA tld : to_lowercase(tld) \notin never_set)
    IN  insert_always(retained, cfg.always)

\* ---------------------------------------------------------------- inputs

\* Domains a caller passes to probe_one: empty, without dot, with a trailing
\* dot, mixed case, with and without an RDAP endpoint or a WHOIS server.
DomCom == <<"a", ".", "C", "o", "m">>
DomZz == <<"a", ".", "z", "z">>
DomIo == <<"a", ".", "i", "o">>
DomAbc == <<"a", ".", "b", ".", "c">>
DomQ == <<"a", ".", "Q">>
Domains ==
    { <<>>, <<"x">>, <<"x", ".">>, DomCom, DomZz, DomIo, DomAbc, DomQ }

Url1 == <<"r", "1">>
Url2 == <<"r", "2">>

\* Bodies that parse as IanaBootstrap.services: a list of (tlds, urls) pairs.
\* DocA lists com twice, has a mixed-case tld, trailing slashes, an alternate
\* url and a service without url; DocB is another edition of the document.
DocA ==
    << << << <<"C", "o", "m">>, <<"z", "z">> >>,
          << Url1 \o <<"/", "/">>, <<"a", "l", "t">> >> >>,
       << << <<"c", "o", "m">> >>, << Url2 >> >>,
       << << <<"i", "o">> >>, << >> >> >>

DocB ==
    << << << <<"c", "o", "m">> >>, << Url1 \o <<"/">> >> >> >>

TransportErrors == { <<"connection refused">> }

\* What the GET of the IANA bootstrap document can come back with: a transport
\* error, the client's timeout, or a response with a status and a body that
\* does or does not parse as IanaBootstrap.
FetchFailed(e) == [kind |-> "error", err |-> e, status |-> 0, valid |-> FALSE, services |-> <<>>]
FetchTimeout == [kind |-> "timeout", err |-> <<"operation timed out">>, status |-> 0,
                 valid |-> FALSE, services |-> <<>>]
FetchBody(status, services) ==
    [kind |-> "http", err |-> <<>>, status |-> status, valid |-> TRUE, services |-> services]
FetchGarbage(status) ==
    [kind |-> "http", err |-> <<>>, status |-> status, valid |-> FALSE, services |-> <<>>]

FetchResponses ==
    {FetchFailed(e) : e \in TransportErrors}
    \cup {FetchTimeout, FetchGarbage(200), FetchGarbage(500),
          FetchBody(200, DocA), FetchBody(200, DocB), FetchBody(500, DocB)}

\* What the RDAP GET can come back with.
RdapHttp(status) == [kind |-> "http", status |-> status, err |-> <<>>]
RdapTimeout == [kind |-> "timeout", status |-> 0, err |-> <<>>]
RdapOutcomes ==
    {RdapHttp(s) : s \in {200, 404, 429, 500}}
    \cup [kind : {"error"}, status : {0}, err : TransportErrors]
    \cup {RdapTimeout}

TextNoMatch == <<"N", "o", " ", "m", "a", "t", "c", "h">>
TextRegistrar == <<"R", "e", "g", "i", "s", "t", "r", "a", "r", ":">>
TextBoth ==
    <<"r", "e", "g", "i", "s", "t", "r", "a", "r", ":", " ",
      "N", "O", "T", " ", "F", "O", "U", "N", "D">>
TextBusy == <<"b", "u", "s", "y">>
TextNoData == <<"%", " ", "N", "o", " ", "D", "a", "t", "a", " ", "F", "o", "u", "n", "d">>
TextNoEntries ==
    <<"n", "o", " ", "e", "n", "t", "r", "i", "e", "s", " ", "f", "o", "u", "n", "d", ".">>
TextDomainName == <<"D", "o", "m", "a", "i", "n", " ", "N", "a", "m", "e", ":", " ", "A">>
\* A marker cut short.
TextNoMatc == <<"n", "o", " ", "m", "a", "t", "c">>

\* What the WHOIS exchange can come back with.
WhoisText(t) == [kind |-> "text", text |-> t, err |-> <<>>]
WhoisTimeout == [kind |-> "timeout", text |-> <<>>, err |-> <<>>]
WhoisOutcomes ==
    {WhoisText(t) : t \in {TextNoMatch, TextRegistrar, TextBoth, TextBusy,
                            TextNoData, TextNoEntries, TextDomainName, TextNoMatc}}
    \cup [kind : {"error"}, text : {<<>>}, err : TransportErrors]
    \cup {WhoisTimeout}

Config(rate, fallback) ==
    [timeout |-> Timeout, whois_fallback |-> fallback, max_rate_per_endpoint |-> rate]

\* ---------------------------------------------------------------- state

VARIABLES
    env,           \* the run: who calls, what callers pass, what the network answers
    config,        \* Prober.config (ProbeConfig), copied into every clone
    endpoints,     \* EndpointRegistry.endpoints: lowercased tld -> base url
    bootstrapped,  \* EndpointRegistry.bootstrapped
    limiters,      \* EndpointRateLimiters.limiters: endpoint -> bucket cells
    pc,            \* where each task's probe_one call stands
    domain,        \* the call's argument
    pending,       \* bootstrap: inserts of the fetched document still to do
    tld,           \* probe_one's local tld
    endpoint,      \* probe_one's local endpoint
    availability,  \* probe_one's local availability; the result's when Done
    fetches,       \* GETs of the bootstrap document sent so far
    overlaps,      \* GETs sent while another bootstrap call was in flight
    fetchFailed,   \* whether a GET of the bootstrap document has failed
    fetched,       \* documents whose inserts were started
    inserted,      \* documents of which a call has made every insert
    hist,          \* per call: what the call has done so far
    opleft,        \* time left in the timeout of the pending network wait
    netwait,       \* time the call has spent waiting on the network
    limwait,       \* time the call has spent in until_ready
    recent,        \* per endpoint: acquire returns in each tick of the last second
    stream,        \* the stream probe_stream returned, if one was made
    cli,           \* dqcli's main: the call that builds its TLD list
    app            \* dqcli's TUI: the App and the tasks start_checking spawned

vars == <<env, config, endpoints, bootstrapped, limiters, pc, domain,
          pending, tld, endpoint, availability, fetches, overlaps, fetchFailed,
          fetched, inserted, hist, opleft, netwait, limwait, recent, stream, cli,
          app>>

\* What no step of probe_one writes.
fixedVars == <<env, config, stream, cli, app>>
registryVars == <<endpoints, bootstrapped>>
timerVars == <<opleft, netwait, limwait>>
bootVars == <<fetches, overlaps, fetchFailed, fetched, inserted>>

NoHist ==
    [fetchResp |-> <<>>, sawFlag |-> FALSE, inserts |-> 0, stored |-> FALSE,
     lookup |-> "none", created |-> 0, acquired |-> <<>>, rdapSent |-> 0,
     rdapOutcome |-> <<>>, rdapVerdict |-> <<>>, whoisCalls |-> 0,
     whoisSent |-> 0, whoisVerdict |-> <<>>, insertedOnFlag |-> FALSE,
     flagAtCall |-> FALSE, extracted |-> <<>>, dropped |-> FALSE,
     fetchSent |-> 0, whoisOutcome |-> <<>>]

\* No stream was made.
NoStream ==
    [state |-> "None", input |-> <<>>, next |-> 1, sourceDone |-> FALSE,
     running |-> {}, yielded |-> <<>>, polledAtEnd |-> FALSE]

\* Prober::with_config: an empty registry, no limiter, no call made.
InitProber ==
    /\ endpoints = EmptyMap
    /\ bootstrapped = FALSE
    /\ limiters = [e \in {} |-> 0]
    /\ pc = [p \in Tasks |-> "Idle"]
    /\ domain = [p \in Tasks |-> <<>>]
    /\ pending = [p \in Tasks |-> <<>>]
    /\ tld = [p \in Tasks |-> <<>>]
    /\ endpoint = [p \in Tasks |-> <<>>]
    /\ availability = [p \in Tasks |-> Unknown(<<>>)]
    /\ fetches = 0
    /\ overlaps = 0
    /\ fetchFailed = FALSE
    /\ fetched = {}
    /\ inserted = {}
    /\ hist = [p \in Tasks |-> NoHist]
    /\ opleft = [p \in Tasks |-> 0]
    /\ netwait = [p \in Tasks |-> 0]
    /\ limwait = [p \in Tasks |-> 0]
    /\ recent = [e \in {} |-> <<>>]

\* main has not built a TLD list.
NoCli ==
    [call |-> "none", response |-> <<>>, tlds |-> <<>>,
     config |-> [always |-> <<>>, never |-> <<>>], returned |-> FALSE,
     result |-> <<>>]

\* The TUI is not running.
NoApp ==
    [phase |-> "None", query |-> <<>>, input_mode |-> TRUE, results |-> <<>>,
     tlds |-> <<>>, searches |-> <<>>, list_state |-> <<>>,
     filter_mode |-> "All", overflow_checks |-> FALSE, underflow |-> FALSE]

InitShared ==
    /\ stream = NoStream
    /\ cli = NoCli
    /\ app = NoApp
    /\ InitProber

\* One task calls probe_one again and again, with every domain, under every
\* configuration, and the network answers in every way; time is not measured.
Init ==
    /\ env = [clocked |-> FALSE, tasks |-> {1}, domains |-> Domains,
              fetch |-> FetchResponses, rdap |-> RdapOutcomes, whois |-> WhoisOutcomes]
    /\ config \in {Config(r, f) : r \in 0..MaxRate, f \in BOOLEAN}
    /\ InitShared

\* Every task calls probe_one through its clone, concurrently with the others.
InitShare ==
    /\ env = [clocked |-> FALSE, tasks |-> Tasks, domains |-> {DomCom, DomIo},
              fetch |-> {FetchFailed(e) : e \in TransportErrors}
                        \cup {FetchBody(200, DocA), FetchBody(200, DocB)},
              rdap |-> {RdapHttp(404)},
              whois |-> {WhoisText(TextRegistrar)}]
    /\ config \in {Config(r, TRUE) : r \in {0, 1}}
    /\ InitShared

\* As InitShare, with time measured: timeouts fire when they are due, and
\* until_ready returns when the bucket has a cell.
InitClock ==
    /\ env = [clocked |-> TRUE, tasks |-> Tasks, domains |-> {DomCom},
              fetch |-> {FetchBody(200, DocB)},
              rdap |-> {RdapHttp(404), RdapTimeout},
              whois |-> {WhoisTimeout}]
    /\ config \in {Config(r, TRUE) : r \in 1..MaxRate}
    /\ InitShared

\* Probes that fail next to probes that do not: the bootstrap fetch fails, is
\* answered with an error status, or delivers the document; a domain is
\* invalid; RDAP answers with an error status.
InitFail ==
    /\ env = [clocked |-> FALSE, tasks |-> Tasks,
              domains |-> {<<"x", ".">>, DomZz, DomIo},
              fetch |-> {FetchFailed(e) : e \in TransportErrors}
                        \cup {FetchBody(500, DocB), FetchBody(200, DocA)},
              rdap |-> {RdapHttp(404), RdapHttp(500)},
              whois |-> {WhoisText(TextRegistrar)}]
    /\ config \in {Config(1, f) : f \in BOOLEAN}
    /\ InitShared

\* Callers that may drop the futures of their calls.
InitDrop ==
    /\ env = [clocked |-> FALSE, tasks |-> Tasks, domains |-> {DomCom, DomIo},
              fetch |-> {FetchBody(200, DocA), FetchBody(200, DocB)},
              rdap |-> {RdapHttp(404)},
              whois |-> {WhoisText(TextRegistrar)}]
    /\ config = Config(1, TRUE)
    /\ InitShared

\* ---------------------------------------------------------------- helpers

Note(p, field, value) == [hist EXCEPT ![p][field] = value]

\* An answer arrives at any moment up to the deadline of the wait; the timeout
\* fires at the deadline.
InTime(p) == ~env.clocked \/ opleft[p] >= 0
TimedOut(p) == ~env.clocked \/ opleft[p] = 0

\* A wait armed with twice the timeout.
StartWaitDouble(p) == opleft' = [opleft EXCEPT ![p] = IF env.clocked THEN 2 * config.timeout ELSE 0]

\* A network wait under config.timeout starts.
StartWait(p) == opleft' = [opleft EXCEPT ![p] = IF env.clocked THEN config.timeout ELSE 0]

Finish(p, a) ==
    /\ availability' = [availability EXCEPT ![p] = a]
    /\ pc' = [pc EXCEPT ![p] = "Done"]

InBootstrap(q) == pc[q] \in {"Fetching", "Inserting"}

\* ---------------------------------------------------------------- probe_one

\* A task calls probe_one(domain) on its clone of the Prober.
Call(p, d) ==
    /\ pc[p] \in {"Idle", "Done"}
    /\ pc' = [pc EXCEPT ![p] = "Bootstrapping"]
    /\ domain' = [domain EXCEPT ![p] = d]
    /\ tld' = [tld EXCEPT ![p] = <<>>]
    /\ endpoint' = [endpoint EXCEPT ![p] = <<>>]
    /\ availability' = [availability EXCEPT ![p] = Unknown(<<>>)]
    /\ hist' = [hist EXCEPT ![p] = [NoHist EXCEPT !.flagAtCall = bootstrapped]]
    /\ opleft' = [opleft EXCEPT ![p] = 0]
    /\ netwait' = [netwait EXCEPT ![p] = 0]
    /\ limwait' = [limwait EXCEPT ![p] = 0]
    /\ UNCHANGED <<fixedVars, registryVars, limiters, pending, bootVars, recent>>

\* A bootstrap that ignores the flag.
ReturnsEarlyNever(flag) == FALSE

\* bootstrap's first statement: return Ok(()) when the flag is set.
ReturnsEarly(flag) == flag

\* bootstrap: the load of the flag; the GET is sent when it reads false.
BootstrapLoad(p) ==
    /\ pc[p] = "Bootstrapping"
    /\ IF ReturnsEarly(bootstrapped)
       THEN /\ pc' = [pc EXCEPT ![p] = "TldExtraction"]
            /\ hist' = Note(p, "sawFlag", TRUE)
            /\ UNCHANGED <<fetches, overlaps, opleft>>
       ELSE /\ fetches < MaxFetches
            /\ pc' = [pc EXCEPT ![p] = "Fetching"]
            /\ fetches' = fetches + 1
            /\ overlaps' = IF \E q \in Tasks \ {p} : InBootstrap(q)
                           THEN overlaps + 1 ELSE overlaps
            /\ StartWait(p)
            /\ hist' = Note(p, "fetchSent", hist[p].fetchSent + 1)
    /\ UNCHANGED <<fixedVars, registryVars, limiters, domain, pending, tld, endpoint,
                   availability, fetchFailed, fetched, inserted, netwait, limwait, recent>>

\* send().await?.json().await?: Ok for every response whose body parses.
FetchOk(r) == r.kind = "http" /\ r.valid

FetchErr(r) ==
    IF r.kind = "http" THEN <<"error decoding response body">> ELSE r.err

BootstrapFailedText(e) == <<"Bootstrap failed: ">> \o FetchErrorText(e)

\* bootstrap: the GET answers.
FetchRespond(p, r) ==
    /\ pc[p] = "Fetching"
    /\ IF r.kind = "timeout" THEN TimedOut(p) ELSE InTime(p)
    /\ hist' = Note(p, "fetchResp", <<r>>)
    /\ IF FetchOk(r)
       THEN /\ pending' = [pending EXCEPT ![p] = BootstrapInserts(r.services)]
            /\ fetched' = fetched \cup {r.services}
            /\ inserted' = IF BootstrapInserts(r.services) = <<>>
                           THEN inserted \cup {r.services} ELSE inserted
            /\ pc' = [pc EXCEPT ![p] = "Inserting"]
            /\ UNCHANGED <<availability, fetchFailed>>
       ELSE /\ Finish(p, Unknown(BootstrapFailedText(FetchErr(r))))
            /\ fetchFailed' = TRUE
            /\ UNCHANGED <<pending, fetched, inserted>>
    /\ UNCHANGED <<fixedVars, registryVars, limiters, domain, tld, endpoint,
                   fetches, overlaps, timerVars, recent>>

\* The document a call of bootstrap is inserting.
OwnDocument(p) == hist[p].fetchResp[1].services

\* A bootstrap that stores the flag with its first insert.
InsertNextFlagFirst(p) ==
    /\ pc[p] = "Inserting"
    /\ pending[p] # <<>>
    /\ endpoints' = MapInsert(endpoints, Head(pending[p]).key, Head(pending[p]).value)
    /\ bootstrapped' = TRUE
    /\ pending' = [pending EXCEPT ![p] = Tail(pending[p])]
    /\ inserted' = IF Tail(pending[p]) = <<>> THEN inserted \cup {OwnDocument(p)}
                   ELSE inserted
    /\ hist' = [hist EXCEPT ![p].inserts = @ + 1,
                            ![p].insertedOnFlag = @ \/ bootstrapped]
    /\ UNCHANGED <<fixedVars, limiters, pc, domain, tld, endpoint,
                   availability, fetches, overlaps, fetchFailed, fetched, timerVars, recent>>

\* bootstrap: one self.endpoints.insert of the loop.
InsertNext(p) ==
    /\ pc[p] = "Inserting"
    /\ pending[p] # <<>>
    /\ endpoints' = MapInsert(endpoints, Head(pending[p]).key, Head(pending[p]).value)
    /\ pending' = [pending EXCEPT ![p] = Tail(pending[p])]
    /\ inserted' = IF Tail(pending[p]) = <<>> THEN inserted \cup {OwnDocument(p)}
                   ELSE inserted
    /\ hist' = [hist EXCEPT ![p].inserts = @ + 1,
                            ![p].insertedOnFlag = @ \/ bootstrapped]
    /\ UNCHANGED <<fixedVars, bootstrapped, limiters, pc, domain, tld, endpoint,
                   availability, fetches, overlaps, fetchFailed, fetched, timerVars, recent>>

\* A probe_one that goes from the bootstrap to the lookup, without extract_tld.
StoreFlagSkippingExtraction(p) ==
    /\ pc[p] = "Inserting"
    /\ pending[p] = <<>>
    /\ bootstrapped' = TRUE
    /\ pc' = [pc EXCEPT ![p] = "EndpointLookup"]
    /\ hist' = Note(p, "stored", TRUE)
    /\ UNCHANGED <<fixedVars, endpoints, limiters, domain, pending, tld, endpoint,
                   availability, bootVars, timerVars, recent>>

\* bootstrap: self.bootstrapped.store(true), Ok(()).
StoreFlag(p) ==
    /\ pc[p] = "Inserting"
    /\ pending[p] = <<>>
    /\ bootstrapped' = TRUE
    /\ pc' = [pc EXCEPT ![p] = "TldExtraction"]
    /\ hist' = Note(p, "stored", TRUE)
    /\ UNCHANGED <<fixedVars, endpoints, limiters, domain, pending, tld, endpoint,
                   availability, bootVars, timerVars, recent>>

\* extract_tld(domain)
ExtractTld(p) ==
    /\ pc[p] = "TldExtraction"
    /\ LET r == extract_tld(domain[p])
       IN  /\ hist' = Note(p, "extracted", <<r>>)
           /\ IF r.ok
              THEN /\ tld' = [tld EXCEPT ![p] = r.tld]
                   /\ pc' = [pc EXCEPT ![p] = "EndpointLookup"]
                   /\ UNCHANGED availability
              ELSE /\ Finish(p, Unknown(r.err))
                   /\ UNCHANGED tld
    /\ UNCHANGED <<fixedVars, registryVars, limiters, domain, pending, endpoint,
                   bootVars, timerVars, recent>>

\* The reason without the dot before the tld.
NoEndpointTextWithoutDot(t) == <<"No RDAP endpoint for ">> \o t

\* format!("No RDAP endpoint for .{}", tld)
NoEndpointText(t) == <<"No RDAP endpoint for .">> \o t

\* The None arm of the match on get_endpoint: WHOIS when whois_fallback is set.
MissGoesToWhois(cfg) == cfg.whois_fallback

\* self.registry.get_endpoint(&tld) and the match on it.
Lookup(p) ==
    /\ pc[p] = "EndpointLookup"
    /\ LET g == get_endpoint(endpoints, tld[p])
       IN  IF g.some
           THEN /\ endpoint' = [endpoint EXCEPT ![p] = g.url]
                /\ pc' = [pc EXCEPT ![p] = "RateLimitWait"]
                /\ hist' = Note(p, "lookup", "hit")
                /\ UNCHANGED availability
           ELSE /\ hist' = Note(p, "lookup", "miss")
                /\ UNCHANGED endpoint
                /\ IF MissGoesToWhois(config)
                   THEN /\ pc' = [pc EXCEPT ![p] = "WhoisDirect"]
                        /\ UNCHANGED availability
                   ELSE Finish(p, Unknown(NoEndpointText(tld[p])))
    /\ UNCHANGED <<fixedVars, registryVars, limiters, domain, pending, tld,
                   bootVars, timerVars, recent>>

\* A lookup that finds no entry although there is one.
EntryOccupiedNever(ls, e) == FALSE

\* self.limiters.entry(endpoint): occupied when the map holds the key; the test
\* and the insert of or_insert_with are one step under the shard's lock.
EntryOccupied(ls, e) == e \in DOMAIN ls

\* acquire: get_or_create.  NonZeroU32::new(0).unwrap() panics when the entry
\* has to be made and the rate is 0.
GetOrCreate(p) ==
    /\ pc[p] = "RateLimitWait"
    /\ LET e == endpoint[p]
       IN  IF EntryOccupied(limiters, e)
           THEN /\ pc' = [pc EXCEPT ![p] = "UntilReady"]
                /\ UNCHANGED <<limiters, recent, hist>>
           ELSE IF config.max_rate_per_endpoint = 0
           THEN /\ pc' = [pc EXCEPT ![p] = "Panicked"]
                /\ UNCHANGED <<limiters, recent, hist>>
           ELSE /\ limiters' = MapInsert(limiters, e, NewLimiter(config.max_rate_per_endpoint))
                /\ recent' = IF env.clocked
                             THEN MapInsert(recent, e,
                                    [i \in 1..OneSecond(config.max_rate_per_endpoint) |-> 0])
                             ELSE recent
                /\ hist' = Note(p, "created", hist[p].created + 1)
                /\ pc' = [pc EXCEPT ![p] = "UntilReady"]
    /\ UNCHANGED <<fixedVars, registryVars, domain, pending, tld, endpoint,
                   availability, bootVars, timerVars>>

\* acquire left out: the request goes out without a cell being taken.
UntilReadyWithoutCell(p) ==
    /\ pc[p] = "UntilReady"
    /\ pc' = [pc EXCEPT ![p] = "RdapSend"]
    /\ UNCHANGED <<fixedVars, registryVars, limiters, recent, hist, domain, pending, tld,
                   endpoint, availability, bootVars, timerVars>>

\* acquire: limiter.until_ready() returns.
UntilReady(p) ==
    /\ pc[p] = "UntilReady"
    /\ LET e == endpoint[p]
       IN  /\ LimiterReady(limiters[e])
           /\ limiters' = [limiters EXCEPT ![e] = @ - 1]
           /\ recent' = IF env.clocked THEN [recent EXCEPT ![e][1] = @ + 1] ELSE recent
           /\ hist' = Note(p, "acquired", Append(hist[p].acquired, e))
    /\ pc' = [pc EXCEPT ![p] = "RdapSend"]
    /\ UNCHANGED <<fixedVars, registryVars, domain, pending, tld, endpoint,
                   availability, bootVars, timerVars>>

\* check_rdap: the GET of {endpoint}/domain/{domain} is sent.
RdapSend(p) ==
    /\ pc[p] = "RdapSend"
    /\ pc' = [pc EXCEPT ![p] = "Rdap"]
    /\ hist' = Note(p, "rdapSent", hist[p].rdapSent + 1)
    /\ StartWait(p)
    /\ UNCHANGED <<fixedVars, registryVars, limiters, domain, pending, tld,
                   endpoint, availability, bootVars, netwait, limwait, recent>>

\* A fallback that keeps the verdict of a 429.
FallsBackUnlessRateLimited(v, cfg) ==
    is_unknown(v) /\ cfg.whois_fallback /\ v.reason # <<"Rate limited">>

\* The condition of the if after check_rdap: WHOIS replaces an Unknown verdict
\* when whois_fallback is set.
FallsBack(v, cfg) == is_unknown(v) /\ cfg.whois_fallback

\* A check_rdap that sends its request again after an answer without verdict.
RdapRespondRetrying(p, o) ==
    /\ pc[p] = "Rdap"
    /\ IF o.kind = "timeout" THEN TimedOut(p) ELSE InTime(p)
    /\ LET v == check_rdap_verdict(o)
       IN  /\ hist' = [hist EXCEPT ![p].rdapOutcome = <<o>>, ![p].rdapVerdict = <<v>>]
           /\ availability' = [availability EXCEPT ![p] = v]
           /\ pc' = [pc EXCEPT ![p] = IF is_unknown(v) THEN "RdapSend" ELSE "Done"]
    /\ UNCHANGED <<fixedVars, registryVars, limiters, domain, pending, tld,
                   endpoint, bootVars, timerVars, recent>>

\* check_rdap answers; probe_one keeps the verdict or falls back to WHOIS.
RdapRespond(p, o) ==
    /\ pc[p] = "Rdap"
    /\ IF o.kind = "timeout" THEN TimedOut(p) ELSE InTime(p)
    /\ LET v == check_rdap_verdict(o)
       IN  /\ hist' = [hist EXCEPT ![p].rdapOutcome = <<o>>, ![p].rdapVerdict = <<v>>]
           /\ availability' = [availability EXCEPT ![p] = v]
           /\ pc' = [pc EXCEPT ![p] = IF FallsBack(v, config) THEN "WhoisFallback" ELSE "Done"]
    /\ UNCHANGED <<fixedVars, registryVars, limiters, domain, pending, tld,
                   endpoint, bootVars, timerVars, recent>>

\* check_whois: the server table; the connection is opened for a listed tld.
WhoisSelect(p) ==
    /\ pc[p] \in {"WhoisDirect", "WhoisFallback"}
    /\ IF has_whois_server(domain[p])
       THEN /\ pc' = [pc EXCEPT ![p] = "WhoisIO"]
            /\ hist' = [hist EXCEPT ![p].whoisCalls = @ + 1, ![p].whoisSent = @ + 1]
            /\ StartWait(p)
            /\ UNCHANGED availability
       ELSE /\ Finish(p, NoWhoisServer(domain[p]))
            /\ hist' = [hist EXCEPT ![p].whoisCalls = @ + 1,
                                    ![p].whoisVerdict = <<NoWhoisServer(domain[p])>>]
            /\ UNCHANGED opleft
    /\ UNCHANGED <<fixedVars, registryVars, limiters, domain, pending, tld,
                   endpoint, bootVars, netwait, limwait, recent>>

\* check_whois: the exchange answers, fails or times out.
WhoisRespond(p, o) ==
    /\ pc[p] = "WhoisIO"
    /\ IF o.kind = "timeout" THEN TimedOut(p) ELSE InTime(p)
    /\ Finish(p, check_whois_verdict(o))
    /\ hist' = [hist EXCEPT ![p].whoisOutcome = <<o>>,
                            ![p].whoisVerdict = <<check_whois_verdict(o)>>]
    /\ UNCHANGED <<fixedVars, registryVars, limiters, domain, pending, tld,
                   endpoint, bootVars, timerVars, recent>>

\* ---------------------------------------------------------------- time

NetWaiting(p) == pc[p] \in {"Fetching", "Rdap", "WhoisIO"}
Suspended(p) ==
    pc[p] \in {"Idle", "Done", "Panicked", "Fetching", "Rdap", "WhoisIO", "UntilReady"}

\* One replenish interval passes.  Every bucket gets a cell back.  When time
\* is measured, it passes only while every task is suspended: no wait is past
\* its timeout and no until_ready could return.
Tick ==
    /\ limiters' = [e \in DOMAIN limiters |->
                      Replenish(limiters[e], config.max_rate_per_endpoint)]
    /\ IF env.clocked
       THEN /\ \A p \in Tasks : Suspended(p)
            /\ \A p \in Tasks : NetWaiting(p) => opleft[p] > 0
            /\ \A p \in Tasks : pc[p] = "UntilReady" =>
                    /\ ~LimiterReady(limiters[endpoint[p]])
                    /\ limwait[p] < MaxWait
            /\ opleft' = [p \in Tasks |-> IF NetWaiting(p) THEN opleft[p] - 1 ELSE opleft[p]]
            /\ netwait' = [p \in Tasks |-> IF NetWaiting(p) THEN netwait[p] + 1 ELSE netwait[p]]
            /\ limwait' = [p \in Tasks |->
                             IF pc[p] = "UntilReady" THEN limwait[p] + 1 ELSE limwait[p]]
            /\ recent' = [e \in DOMAIN recent |->
                            <<0>> \o SubSeq(recent[e], 1, Len(recent[e]) - 1)]
       ELSE /\ limiters' # limiters
            /\ UNCHANGED <<timerVars, recent>>
    /\ UNCHANGED <<fixedVars, registryVars, pc, domain, pending, tld, endpoint,
                   availability, bootVars, hist>>

Next ==
    \/ \E p \in env.tasks, d \in env.domains : Call(p, d)
    \/ \E p \in Tasks : BootstrapLoad(p)
    \/ \E p \in Tasks, r \in env.fetch : FetchRespond(p, r)
    \/ \E p \in Tasks : InsertNext(p)
    \/ \E p \in Tasks : StoreFlag(p)
    \/ \E p \in Tasks : ExtractTld(p)
    \/ \E p \in Tasks : Lookup(p)
    \/ \E p \in Tasks : GetOrCreate(p)
    \/ \E p \in Tasks : UntilReady(p)
    \/ \E p \in Tasks : RdapSend(p)
    \/ \E p \in Tasks, o \in env.rdap : RdapRespond(p, o)
    \/ \E p \in Tasks : WhoisSelect(p)
    \/ \E p \in Tasks, o \in env.whois : WhoisRespond(p, o)
    \/ Tick

\* Sequential calls, every input.
Spec == Init /\ [][Next]_vars

\* Concurrent calls through clones.
SpecShare == InitShare /\ [][Next]_vars

\* Concurrent calls, timed.
SpecClock == InitClock /\ [][Next]_vars

\* Concurrent calls, some of which fail.
SpecFail == InitFail /\ [][Next]_vars

\* ---------------------------------------------------------------- cancellation

\* The await points of probe_one: the bootstrap GET, until_ready, the RDAP GET
\* and the WHOIS exchange.
AtAwait(p) == pc[p] \in {"Fetching", "UntilReady", "Rdap", "WhoisIO"}

\* A dropped future that goes on running.
AfterDropStillRunning(at) == at

\* A dropped future is gone: nothing of the call runs any more.
AfterDrop(at) == "Idle"

\* The caller drops the futures of the calls in S, each suspended at an await:
\* one probe_one future, or a stream with these probes in its queue.
DropFutures(S) ==
    /\ \A p \in S : AtAwait(p)
    /\ pc' = [p \in Tasks |-> IF p \in S THEN AfterDrop(pc[p]) ELSE pc[p]]
    /\ hist' = [p \in Tasks |-> IF p \in S THEN [hist[p] EXCEPT !.dropped = TRUE]
                                 ELSE hist[p]]
    /\ UNCHANGED <<fixedVars, registryVars, limiters, domain, pending, tld, endpoint,
                   availability, bootVars, timerVars, recent>>

NextDrop ==
    \/ Next
    \/ \E S \in {{p} : p \in Tasks} \cup {Tasks} : DropFutures(S)

\* Concurrent calls whose futures may be dropped.
SpecDrop == InitDrop /\ [][NextDrop]_vars

\* ---------------------------------------------------------------- probe_stream

\* buffer_unordered(max_concurrent_per_endpoint as usize * 10)
WindowFactor == 10
Window(cfg) == cfg.max_concurrent_per_endpoint * WindowFactor

StreamConfig(rate, concurrent) ==
    [timeout |-> Timeout, whois_fallback |-> TRUE, max_rate_per_endpoint |-> rate,
     max_concurrent_per_endpoint |-> concurrent]

\* The domains handed to probe_stream: a list with repeats, an invalid name
\* and mixed case, cut to every length.
StreamDomains == <<DomCom, <<"x", ".">>, DomCom, DomIo>>
StreamInput(n) == [i \in 1..n |-> StreamDomains[((i - 1) % Len(StreamDomains)) + 1]]

\* A slot filled although the queue is at its limit.
HasFreeSlotInclusive(n, max) == n <= max

\* BufferUnordered::poll_next: while in_progress_queue.len() < max
HasFreeSlot(n, max) == n < max

\* The first loop of BufferUnordered::poll_next: futures are taken from the
\* source and pushed while a slot is free; the source is found exhausted only
\* when it is polled.
RECURSIVE Fill(_, _)
Fill(st, max) ==
    IF ~HasFreeSlot(Cardinality(st.running), max) THEN st
    ELSE IF st.next <= Len(st.input)
    THEN Fill([st EXCEPT !.running = @ \cup {st.next}, !.next = @ + 1], max)
    ELSE [st EXCEPT !.sourceDone = TRUE]

\* A result carrying the lowercased domain.
ResultDomainLowercased(d) == to_lowercase(d)

\* ProbeResult { domain: domain.to_string(), .. } on every return of probe_one.
ResultDomain(d) == d

BagAdd(b, x) ==
    IF x \in DOMAIN b THEN [b EXCEPT ![x] = @ + 1]
    ELSE [y \in DOMAIN b \cup {x} |-> IF y = x THEN 1 ELSE b[y]]

\* A probe of the stream panics where probe_one does: a limiter has to be made
\* for the endpoint of its tld and the rate is 0.
ProbeMayPanic(cfg, d) == cfg.max_rate_per_endpoint = 0 /\ extract_tld(d).ok

\* probe_one's variables, which the stream's own steps leave alone: a probe
\* of the stream is followed from its start to its result.
proberVars ==
    <<endpoints, bootstrapped, limiters, pc, domain, pending, tld, endpoint,
      availability, fetches, overlaps, fetchFailed, fetched, inserted, hist, opleft,
      netwait, limwait, recent>>

\* The consumer polls the stream: the window is filled, then one finished
\* probe is yielded, or a probe panics, or the stream ends (queue empty and
\* source exhausted), or the poll returns Pending.
PollNext ==
    /\ stream.state = "Live"
    /\ LET st == Fill(stream, Window(config))
       IN  \/ \E i \in st.running :
                 stream' = [st EXCEPT !.running = @ \ {i},
                                      !.yielded = BagAdd(@, ResultDomain(st.input[i]))]
           \/ \E i \in st.running :
                 /\ ProbeMayPanic(config, st.input[i])
                 /\ stream' = [st EXCEPT !.state = "Panicked", !.running = {}]
           \/ /\ st.running = {}
              /\ st.sourceDone
              /\ stream' = [st EXCEPT !.state = "Ended"]
           \/ /\ st.running # {}
              /\ st # stream
              /\ stream' = st
    /\ UNCHANGED <<env, config, cli, app, proberVars>>

\* The consumer polls a stream that has ended: None again.
PollEnded ==
    /\ stream.state = "Ended"
    /\ ~stream.polledAtEnd
    /\ stream' = [stream EXCEPT !.polledAtEnd = TRUE]
    /\ UNCHANGED <<env, config, cli, app, proberVars>>

\* The consumer drops the stream, and with it the probes in the queue.
StreamDrop ==
    /\ stream.state = "Live"
    /\ stream' = [stream EXCEPT !.state = "Dropped", !.running = {}]
    /\ UNCHANGED <<env, config, cli, app, proberVars>>

\* probe_stream(domains) on a fresh Prober: the input is collected, nothing
\* is polled yet.
InitStream ==
    /\ env = [clocked |-> FALSE, tasks |-> {}, domains |-> {}, fetch |-> {},
              rdap |-> {}, whois |-> {}]
    /\ config \in {StreamConfig(r, c) : r \in {0, 1}, c \in 0..MaxConcurrent}
    /\ stream \in {[NoStream EXCEPT !.state = "Live", !.input = StreamInput(n)] :
                     n \in 0..MaxInputs}
    /\ cli = NoCli
    /\ app = NoApp
    /\ InitProber

NextPolled == PollNext \/ PollEnded

NextStream == NextPolled \/ StreamDrop

\* A stream and its consumer, which polls it or drops it.
SpecStream == InitStream /\ [][NextStream]_vars

\* A stream whose consumer keeps polling it.
SpecStreamPolled == InitStream /\ [][NextPolled]_vars /\ WF_vars(NextPolled)

\* ---------------------------------------------------------------- TLD list

\* Lines of a response: entries in lower and mixed case, a comment, a comment
\* after a blank, a line of blanks, an empty line, punycode entries in both
\* cases and with blanks around, an entry with blanks around, a line ending
\* in "\r".
ResponseLines ==
    { <<"c", "o", "m">>, <<"N", "e", "t">>, <<"#", " ", "c">>, <<" ", "#", "c">>,
      <<" ", " ">>, <<>>, <<"x", "n", "-", "-", "a">>,
      <<" ", "X", "N", "-", "-", "b", " ">>, <<" ", "i", "o", "\t">>,
      <<"d", "e", "v", CR>> }

RECURSIVE JoinLines(_)
JoinLines(ls) ==
    IF ls = <<>> THEN <<>>
    ELSE IF Len(ls) = 1 THEN ls[1]
    ELSE ls[1] \o <<LF>> \o JoinLines(Tail(ls))

SeqsUpTo(S, n) == UNION {[1..k -> S] : k \in 0..n}

\* The texts a response can carry: up to MaxLines lines, the last one with or
\* without its "\n".
ResponseTexts ==
    LET joined == {JoinLines(ls) : ls \in SeqsUpTo(ResponseLines, MaxLines)}
    IN  joined \cup {t \o <<LF>> : t \in joined}

TldResponses ==
    {[kind |-> "text", text |-> t] : t \in ResponseTexts}
    \cup {[kind |-> "error", text |-> <<>>]}

\* The lists of --tlds and of the config file, as the user wrote them.
TldNames == { <<"c", "o", "m">>, <<"I", "O">>, <<"d", "e", "v">> }
TldConfigs ==
    [always : { <<>>, << <<"I", "o">> >>, << <<"n", "e", "t">>, <<"c", "o", "m">> >> },
     never : { <<>>, << <<"i", "o">> >>, << <<"C", "O", "M">>, <<"d", "e", "v">> >> }]

\* main is about to build its TLD list: fetch_iana_tlds is called and the
\* response is one of TldResponses, or apply_config_to_tlds is called with a
\* list and a config.
InitCli ==
    /\ env = [clocked |-> FALSE, tasks |-> {}, domains |-> {}, fetch |-> {},
              rdap |-> {}, whois |-> {}]
    /\ config = Config(1, TRUE)
    /\ stream = NoStream
    /\ app = NoApp
    /\ cli \in {[NoCli EXCEPT !.call = "fetch_iana_tlds", !.response = r] :
                    r \in TldResponses}
               \cup {[NoCli EXCEPT !.call = "apply_config_to_tlds", !.tlds = t,
                                   !.config = c] :
                      t \in SeqsUpTo(TldNames, MaxTlds), c \in TldConfigs}
    /\ InitProber

\* fetch_iana_tlds(&client) returns.
FetchIanaTlds ==
    /\ cli.call = "fetch_iana_tlds"
    /\ ~cli.returned
    /\ cli' = [cli EXCEPT !.returned = TRUE, !.result = fetch_iana_tlds(cli.response)]
    /\ UNCHANGED <<env, config, stream, app, proberVars>>

\* apply_config_to_tlds(default_tlds, &config) returns.
ApplyConfigToTlds ==
    /\ cli.call = "apply_config_to_tlds"
    /\ ~cli.returned
    /\ cli' = [cli EXCEPT !.returned = TRUE,
                          !.result = apply_config_to_tlds(cli.tlds, cli.config)]
    /\ UNCHANGED <<env, config, stream, app, proberVars>>

NextCli == FetchIanaTlds \/ ApplyConfigToTlds

\* The calls with which main builds its TLD list.
SpecCli == InitCli /\ [][NextCli]_vars

\* ---------------------------------------------------------------- TUI

\* The characters the user types into the query, and the TLD lists of a run.
QueryChars == {"a", "b"}
TuiTlds == { << <<"c", "o", "m">>, <<"i", "o">> >>, << <<"i", "o">> >> }

\* A DomainStatus in the results map, with the query of the search that
\* wrote it.
Status(status, query) == [status |-> status, of |-> query]

\* The DomainStatus start_checking's task makes of a result's availability.
Verdicts == {"Available", "Taken", "Error"}

\* App::new: every tld Pending, input mode, no task spawned, the first row
\* selected, no filter.  list_state holds ListState::selected(), an Option
\* of a 0-based index: <<>> is None, <<i>> is Some(i).  overflow_checks is
\* the build's: set, an overflowing subtraction panics (a debug build);
\* unset, it wraps (a release build).  underflow records that a usize
\* subtraction went below zero.
AppNew(initial_query, tlds) ==
    [phase |-> "New", query |-> initial_query, input_mode |-> TRUE,
     results |-> [t \in {tlds[i] : i \in 1..Len(tlds)} |-> Status("Pending", <<>>)],
     tlds |-> tlds, searches |-> <<>>, list_state |-> <<0>>,
     filter_mode |-> "All", overflow_checks |-> FALSE, underflow |-> FALSE]

\* FilterMode::next
filter_mode_next(mode) ==
    CASE mode = "All" -> "Available"
      [] mode = "Available" -> "Taken"
      [] mode = "Taken" -> "All"

PRIORITY_TLDS ==
    << <<"c","o","m">>, <<"n","e","t">>, <<"o","r","g">>, <<"i","o">>,
       <<"a","i">>, <<"d","e","v">>, <<"a","p","p">>, <<"c","o">>,
       <<"m","e">>, <<"t","e","c","h">>, <<"x","y","z">>,
       <<"o","n","l","i","n","e">>, <<"s","i","t","e">>,
       <<"s","t","o","r","e">>, <<"s","h","o","p">>, <<"b","l","o","g">>,
       <<"c","l","o","u","d">>, <<"d","i","g","i","t","a","l">>,
       <<"e","u">>, <<"u","s">>, <<"i","n","f","o">>,
       <<"e","m","a","i","l">>, <<"p","r","o">>, <<"l","i","v","e">>,
       <<"z","o","n","e">>, <<"t","e","a","m">>,
       <<"s","o","l","u","t","i","o","n","s">> >>

\* App::get_sorted_results: a row (tld, status) for every entry of tlds, the
\* status Pending when the map has none, sorted (stably, as sort_by does):
\* the priority TLDs first in the order of PRIORITY_TLDS, the others by
\* status_order and then by the bytes of the tld.
get_sorted_results(a) ==
    LET Bytes == <<"-", ".">> \o DigitChars \o UpperLetters \o LowerLetters
        byte(c) == CHOOSE i \in 1..Len(Bytes) : Bytes[i] = c
        num_cmp(m, n) == IF m < n THEN -1 ELSE IF m > n THEN 1 ELSE 0
        RECURSIVE str_cmp(_, _)
        str_cmp(x, y) ==
            IF x = <<>> \/ y = <<>> THEN num_cmp(Len(x), Len(y))
            ELSE IF Head(x) # Head(y) THEN num_cmp(byte(Head(x)), byte(Head(y)))
            ELSE str_cmp(Tail(x), Tail(y))
        status_order(status) ==
            CASE status = "Available" -> 0
              [] status = "Checking" -> 1
              [] status = "Pending" -> 2
              [] status = "Taken" -> 3
              [] status = "Error" -> 4
        position(t) ==
            IF \E i \in 1..Len(PRIORITY_TLDS) : PRIORITY_TLDS[i] = t
            THEN <<CHOOSE i \in 1..Len(PRIORITY_TLDS) :
                        /\ PRIORITY_TLDS[i] = t
                        /\ \A j \in 1..(i - 1) : PRIORITY_TLDS[j] # t>>
            ELSE <<>>
        cmp(x, y) ==
            LET a_priority == position(x.tld)
                b_priority == position(y.tld)
            IN  IF a_priority # <<>> /\ b_priority # <<>>
                THEN num_cmp(a_priority[1], b_priority[1])
                ELSE IF a_priority # <<>> THEN -1
                ELSE IF b_priority # <<>> THEN 1
                ELSE IF status_order(x.status) # status_order(y.status)
                THEN num_cmp(status_order(x.status), status_order(y.status))
                ELSE str_cmp(x.tld, y.tld)
        RECURSIVE insert(_, _)
        insert(sorted, x) ==
            IF sorted = <<>> THEN <<x>>
            ELSE IF cmp(sorted[Len(sorted)], x) <= 0 THEN Append(sorted, x)
            ELSE Append(insert(SubSeq(sorted, 1, Len(sorted) - 1), x),
                        sorted[Len(sorted)])
        RECURSIVE sort(_)
        sort(rows) ==
            IF rows = <<>> THEN <<>>
            ELSE insert(sort(SubSeq(rows, 1, Len(rows) - 1)), rows[Len(rows)])
    IN  sort([i \in 1..Len(a.tlds) |->
                [tld |-> a.tlds[i],
                 status |-> IF a.tlds[i] \in DOMAIN a.results
                            THEN a.results[a.tlds[i]].status ELSE "Pending"]])

\* App::get_filtered_results: the sorted rows the filter mode lets through.
get_filtered_results(a) ==
    SelectSeq(get_sorted_results(a),
              LAMBDA row : \/ a.filter_mode = "All"
                           \/ a.filter_mode = "Available" /\ row.status = "Available"
                           \/ a.filter_mode = "Taken" /\ row.status = "Taken")

\* App::scroll_down.  With an empty tlds the subtraction tlds.len() - 1 goes
\* below zero: the call panics where overflow is checked, and elsewhere the
\* difference wraps to usize::MAX, which no index reaches, so that the
\* selection moves on by one.
scroll_down(a) ==
    IF a.list_state = <<>> THEN [a EXCEPT !.list_state = <<0>>]
    ELSE LET i == a.list_state[1]
         IN  IF Len(a.tlds) = 0
             THEN IF a.overflow_checks
                  THEN [a EXCEPT !.phase = "Panicked", !.underflow = TRUE]
                  ELSE [a EXCEPT !.list_state = <<i + 1>>, !.underflow = TRUE]
             ELSE [a EXCEPT !.list_state =
                        IF i >= Len(a.tlds) - 1 THEN <<i>> ELSE <<i + 1>>]

\* App::scroll_up
scroll_up(a) ==
    IF a.list_state = <<>> THEN [a EXCEPT !.list_state = <<0>>]
    ELSE LET i == a.list_state[1]
         IN  [a EXCEPT !.list_state = IF i = 0 THEN <<0>> ELSE <<i - 1>>]

\* App::scroll_page_down: (i + 20).min(tlds.len().saturating_sub(1))
scroll_page_down(a) ==
    IF a.list_state = <<>> THEN [a EXCEPT !.list_state = <<0>>]
    ELSE LET i == a.list_state[1]
             last == IF Len(a.tlds) > 1 THEN Len(a.tlds) - 1 ELSE 0
         IN  [a EXCEPT !.list_state = IF i + 20 < last THEN <<i + 20>> ELSE <<last>>]

\* App::scroll_page_up: i.saturating_sub(20)
scroll_page_up(a) ==
    IF a.list_state = <<>> THEN [a EXCEPT !.list_state = <<0>>]
    ELSE LET i == a.list_state[1]
         IN  [a EXCEPT !.list_state = IF i > 20 THEN <<i - 20>> ELSE <<0>>]

\* App::scroll_to_top
scroll_to_top(a) == [a EXCEPT !.list_state = <<0>>]

\* App::scroll_to_bottom: tlds.len().saturating_sub(1)
scroll_to_bottom(a) ==
    [a EXCEPT !.list_state = IF Len(a.tlds) > 1 THEN <<Len(a.tlds) - 1>> ELSE <<0>>]

\* ui, called by terminal.draw at the head of every turn of run_app's loop:
\* of the App it changes list_state only, which it hands to the List widget
\* of the filtered rows by mutable reference.  The widget is the library's:
\* it either leaves the selection as it is, or brings it back into the rows
\* it renders, to None when there are none and to the last row when the
\* selection lies behind it.  The Apps one draw can leave.
ui(a) ==
    LET items == get_filtered_results(a)
    IN  {a,
         IF items = <<>> THEN [a EXCEPT !.list_state = <<>>]
         ELSE IF a.list_state # <<>> /\ a.list_state[1] >= Len(items)
         THEN [a EXCEPT !.list_state = <<Len(items) - 1>>]
         ELSE a}

\* App::start_checking: nothing for an empty query; else every tld of the
\* list is set to Checking and a task is spawned with clones of the query,
\* of the list and of the Arc of the results map.  The tasks spawned before
\* are left running.
start_checking(a) ==
    IF a.query = <<>> THEN a
    ELSE [a EXCEPT
            !.results = [t \in DOMAIN a.results \cup {a.tlds[i] : i \in 1..Len(a.tlds)} |->
                            IF \E i \in 1..Len(a.tlds) : a.tlds[i] = t
                            THEN Status("Checking", a.query) ELSE a.results[t]],
            !.searches = Append(@, [query |-> a.query, remaining |-> 1..Len(a.tlds)])]

tuiVars == <<env, config, stream, cli, proberVars>>

\* run_tui after App::new: a query given on the command line is searched.
RunTui ==
    /\ app.phase = "New"
    /\ app' = IF app.query # <<>>
              THEN start_checking([app EXCEPT !.phase = "Running", !.input_mode = FALSE])
              ELSE [app EXCEPT !.phase = "Running"]
    /\ UNCHANGED tuiVars

\* run_app, input mode, KeyCode::Char(c)
KeyChar(c) ==
    /\ app.phase = "Running"
    /\ app.input_mode
    /\ Len(app.query) < MaxQuery
    /\ \E drawn \in ui(app) : app' = [drawn EXCEPT !.query = Append(@, c)]
    /\ UNCHANGED tuiVars

\* run_app, input mode, KeyCode::Backspace
KeyBackspace ==
    /\ app.phase = "Running"
    /\ app.input_mode
    /\ app.query # <<>>
    /\ \E drawn \in ui(app) : app' = [drawn EXCEPT !.query = SubSeq(@, 1, Len(@) - 1)]
    /\ UNCHANGED tuiVars

\* run_app, input mode, KeyCode::Enter
KeyEnter ==
    /\ app.phase = "Running"
    /\ app.input_mode
    /\ app.query # <<>>
    /\ Len(app.searches) < MaxSearches
    /\ \E drawn \in ui(app) :
            app' = start_checking([drawn EXCEPT !.input_mode = FALSE])
    /\ UNCHANGED tuiVars

\* run_app, normal mode, KeyCode::Char('i')
KeyInput ==
    /\ app.phase = "Running"
    /\ ~app.input_mode
    /\ \E drawn \in ui(app) : app' = [drawn EXCEPT !.input_mode = TRUE]
    /\ UNCHANGED tuiVars

\* run_app, KeyCode::Esc (and 'q' in normal mode): the loop ends after one
\* more draw, and with the runtime the spawned tasks.
KeyQuit ==
    /\ app.phase = "Running"
    /\ \E drawn \in ui(app) :
            \E last \in ui(drawn) : app' = [last EXCEPT !.phase = "Quit"]
    /\ UNCHANGED tuiVars

\* run_app, normal mode, the keys that move the selection: Down or 'j', Up
\* or 'k', PageDown, PageUp, Home or 'g', End or 'G'.
KeyScroll(key) ==
    /\ app.phase = "Running"
    /\ ~app.input_mode
    /\ \E drawn \in ui(app) :
        LET moved == CASE key = "Down" -> scroll_down(drawn)
                       [] key = "Up" -> scroll_up(drawn)
                       [] key = "PageDown" -> scroll_page_down(drawn)
                       [] key = "PageUp" -> scroll_page_up(drawn)
                       [] key = "Home" -> scroll_to_top(drawn)
                       [] key = "End" -> scroll_to_bottom(drawn)
        IN  /\ moved.list_state = <<>> \/ moved.list_state[1] <= MaxSelected
            /\ app' = moved
    /\ UNCHANGED tuiVars

\* run_app, normal mode, KeyCode::Tab or 'f'
KeyFilter ==
    /\ app.phase = "Running"
    /\ ~app.input_mode
    /\ \E drawn \in ui(app) :
            app' = [drawn EXCEPT !.filter_mode = filter_mode_next(@),
                                 !.list_state = <<0>>]
    /\ UNCHANGED tuiVars

\* run_app, a turn of the loop that draws and changes nothing else: the poll
\* times out, or the key is one of those that leave the fields above alone
\* ('y', 'o' and Enter in normal mode, the keys without a handler).
Redraw ==
    /\ app.phase = "Running"
    /\ app' \in ui(app)
    /\ UNCHANGED tuiVars

\* The task of search k gets a result from its stream and writes it: the key
\* is the text after the last dot of the result's domain, the value the
\* DomainStatus of its availability.
TaskResult(k, i, v) ==
    /\ app.phase = "Running"
    /\ k \in 1..Len(app.searches)
    /\ i \in app.searches[k].remaining
    /\ LET search == app.searches[k]
           result_domain == search.query \o <<".">> \o app.tlds[i]
       IN  app' = [app EXCEPT
                    !.results = MapInsert(@, rsplit_next(result_domain),
                                          Status(v, search.query)),
                    !.searches[k].remaining = @ \ {i}]
    /\ UNCHANGED tuiVars

\* run_tui(initial_query, None, tlds)
InitTui ==
    /\ env = [clocked |-> FALSE, tasks |-> {}, domains |-> {}, fetch |-> {},
              rdap |-> {}, whois |-> {}]
    /\ config = Config(1, TRUE)
    /\ stream = NoStream
    /\ cli = NoCli
    /\ app \in {AppNew(q, t) : q \in {<<>>, <<"a">>}, t \in TuiTlds}
    /\ InitProber

NextTui ==
    \/ RunTui
    \/ \E c \in QueryChars : KeyChar(c)
    \/ KeyBackspace
    \/ KeyEnter
    \/ KeyInput
    \/ KeyQuit
    \/ \E k \in 1..Len(app.searches), i \in 1..Len(app.tlds), v \in Verdicts :
            TaskResult(k, i, v)

\* The TUI, its user and the tasks of its searches.
SpecTui == InitTui /\ [][NextTui]_vars

\* run_tui(Some("a"), None, tlds) in either build, the empty list among the
\* lists: the one main is left with when the IANA response has no entry or
\* the never list of the configuration names every TLD given with --tlds.
InitList ==
    /\ env = [clocked |-> FALSE, tasks |-> {}, domains |-> {}, fetch |-> {},
              rdap |-> {}, whois |-> {}]
    /\ config = Config(1, TRUE)
    /\ stream = NoStream
    /\ cli = NoCli
    /\ app \in {[AppNew(<<"a">>, t) EXCEPT !.overflow_checks = o] :
                    t \in TuiTlds \cup {<<>>}, o \in BOOLEAN}
    /\ InitProber

NextList ==
    \/ RunTui
    \/ KeyEnter
    \/ KeyInput
    \/ KeyQuit
    \/ \E key \in {"Down", "Up", "PageDown", "PageUp", "Home", "End"} : KeyScroll(key)
    \/ KeyFilter
    \/ Redraw
    \/ \E k \in 1..Len(app.searches), i \in 1..Len(app.tlds), v \in Verdicts :
            TaskResult(k, i, v)

\* The TUI with a user who searches, searches again, filters and moves the
\* selection, and does not edit the query.
SpecList == InitList /\ [][NextList]_vars

\* ================================================================ claims

RECURSIVE SumSeq(_)
SumSeq(q) == IF q = <<>> THEN 0 ELSE Head(q) + SumSeq(Tail(q))

Rate == config.max_rate_per_endpoint

\* ---------------------------------------------------------------- C1

\* C1: for every domain and every ProbeConfig, probe_one returns a result and
\* never panics.  Stated as: no call of probe_one ends in a panic.
C1_ProbeOneNeverPanics == \A p \in Tasks : pc[p] # "Panicked"

\* ---------------------------------------------------------------- C2

\* C2 as claimed: a call that has returned took at most two timeout budgets,
\* waits on the network and on the rate limiter together.
C2_WithinTwoTimeouts ==
    \A p \in Tasks : pc[p] = "Done" => netwait[p] + limwait[p] <= 2 * config.timeout

\* C2 as amended: the waits of one call on the network (bootstrap fetch, RDAP
\* request, WHOIS exchange) add up to at most three timeout budgets, and to at
\* most two when the call did not fetch the bootstrap document.  The wait in
\* until_ready comes on top of them.
C2_NetworkWaitsWithinThreeTimeouts ==
    \A p \in Tasks :
        /\ netwait[p] <= 3 * config.timeout
        /\ hist[p].fetchResp = <<>> /\ pc[p] # "Fetching" => netwait[p] <= 2 * config.timeout

C2_Witness ==
    \E p \in Tasks :
        /\ pc[p] = "Done"
        /\ netwait[p] = 3 * config.timeout
        /\ hist[p].whoisSent = 1

\* ---------------------------------------------------------------- C3

C3_StatusText == [s \in {500} |-> <<"5", "0", "0">>]

\* C3: the verdict of check_rdap is Available iff the status is 404, Taken iff
\* it is 200, Unknown "Rate limited" for 429, Unknown "HTTP <code>" for any
\* other status, Unknown "Request failed: <err>" for a transport error and
\* Unknown "Timeout" for a timeout; with whois_fallback disabled and an
\* endpoint found, probe_one returns that verdict.
C3_RdapVerdictByTable ==
    \A p \in Tasks :
        hist[p].rdapOutcome # <<>> =>
            LET o == hist[p].rdapOutcome[1]
                v == hist[p].rdapVerdict[1]
            IN  /\ (v = Available) <=> (o.kind = "http" /\ o.status = 404)
                /\ (v = Taken) <=> (o.kind = "http" /\ o.status = 200)
                /\ o.kind = "http" /\ o.status = 429 => v = Unknown(<<"Rate limited">>)
                /\ o.kind = "http" /\ o.status \notin {200, 404, 429} =>
                        v = Unknown(<<"HTTP ">> \o C3_StatusText[o.status])
                /\ o.kind = "error" => v = Unknown(<<"Request failed: ">> \o o.err)
                /\ o.kind = "timeout" => v = Unknown(<<"Timeout">>)
                /\ ~config.whois_fallback /\ pc[p] = "Done" => availability[p] = v

C3_Witness ==
    \E p \in Tasks :
        /\ pc[p] = "Done"
        /\ ~config.whois_fallback
        /\ hist[p].rdapOutcome = <<RdapHttp(429)>>
        /\ availability[p] = Unknown(<<"Rate limited">>)

\* ---------------------------------------------------------------- C4

C4_WhoisDue(p) ==
    /\ config.whois_fallback
    /\ \/ hist[p].lookup = "miss"
       \/ hist[p].rdapVerdict # <<>> /\ hist[p].rdapVerdict[1].kind = "Unknown"

C5_VerdictComposition ==
    \A p \in Tasks :
        pc[p] = "Done" /\ hist[p].lookup # "none" =>
            availability[p] =
                IF hist[p].whoisCalls > 0 THEN hist[p].whoisVerdict[1]
                ELSE IF hist[p].lookup = "hit" THEN hist[p].rdapVerdict[1]
                ELSE Unknown(<<"No RDAP endpoint for .">> \o tld[p])

C5_Witness ==
    \E p \in Tasks :
        /\ pc[p] = "Done"
        /\ hist[p].rdapVerdict = <<Unknown(<<"Timeout">>)>>
        /\ hist[p].whoisCalls = 1
        /\ availability[p] = Unknown(<<"Ambiguous WHOIS response">>)

\* ---------------------------------------------------------------- C6

\* C6 as claimed: in every window of one second at most Rate calls of acquire
\* for one endpoint return.
C6_AtMostRatePerSecond ==
    \A e \in DOMAIN recent : SumSeq(recent[e]) <= Rate

\* C6 as amended: in every window of one second at most 2 * Rate - 1 calls of
\* acquire for one endpoint return: the burst of a full bucket (Rate) and the
\* cells replenished during the window (Rate - 1).
C6_AtMostBurstPlusRate ==
    \A e \in DOMAIN recent : SumSeq(recent[e]) <= 2 * Rate - 1

C6_Witness ==
    \E e \in DOMAIN recent : Rate >= 2 /\ SumSeq(recent[e]) = 2 * Rate - 1

\* ---------------------------------------------------------------- C7

\* C7: a call takes a cell of the limiter of the endpoint the registry
\* returned, once, before its RDAP request is sent, and sends no RDAP request
\* otherwise; a call whose lookup misses takes no cell and makes no limiter
\* entry; the WHOIS fallback takes no second cell.
C7_OneCellPerRdapRequest ==
    \A p \in Tasks :
        /\ hist[p].rdapSent <= Len(hist[p].acquired)
        /\ Len(hist[p].acquired) <= 1
        /\ pc[p] \in {"Done", "Rdap", "WhoisFallback", "WhoisIO"} =>
                hist[p].rdapSent = Len(hist[p].acquired)
        /\ hist[p].acquired # <<>> =>
                /\ hist[p].lookup = "hit"
                /\ hist[p].acquired[1] = endpoint[p]
                /\ endpoint[p] \in DOMAIN limiters
        /\ hist[p].lookup = "miss" => hist[p].acquired = <<>> /\ hist[p].created = 0

C7_Witness ==
    \E p \in Tasks :
        /\ pc[p] = "Done"
        /\ hist[p].whoisCalls = 1
        /\ hist[p].rdapSent = 1
        /\ hist[p].acquired = <<Url2>>

\* ---------------------------------------------------------------- C8

\* C8 as claimed: with every fetch succeeding, the calls of bootstrap perform
\* exactly one fetch in total.
C8_ExactlyOneFetch ==
    ~fetchFailed /\ fetches > 0 => fetches = 1

\* C8 as amended: with every fetch succeeding, a call that reads the flag set
\* fetches nothing, sequential calls perform exactly one fetch in total, and
\* concurrent calls perform at most one fetch per call that read the flag
\* before the first call set it.
C8_OneFetchUnlessOverlapping ==
    /\ \A p \in Tasks : hist[p].sawFlag => hist[p].fetchResp = <<>> /\ pc[p] # "Fetching"
    /\ bootstrapped => fetches >= 1
    /\ ~fetchFailed => /\ fetches <= 1 + overlaps
                       /\ fetches <= Cardinality(Tasks)

C8_Witness ==
    /\ ~fetchFailed
    /\ fetches = 2
    /\ overlaps = 1
    /\ \A p \in Tasks : pc[p] = "Done" /\ hist[p].sawFlag

\* ---------------------------------------------------------------- C9

C9_Listing(doc, k) ==
    {i \in 1..Len(doc) :
        /\ doc[i][2] # <<>>
        /\ \E j \in 1..Len(doc[i][1]) : to_lowercase(doc[i][1][j]) = k}

\* The map one bootstrap call leaves: every tld of a service that has a url,
\* lowercased, bound to the first url of the last such service.
C9_MapOf(doc) ==
    LET keys == {k \in UNION {{to_lowercase(doc[i][1][j]) : j \in 1..Len(doc[i][1])} :
                              i \in 1..Len(doc)} : C9_Listing(doc, k) # {}}
    IN  [k \in keys |->
            LET last == CHOOSE i \in C9_Listing(doc, k) : \A h \in C9_Listing(doc, k) : h <= i
            IN  trim_end_matches_slash(doc[last][2][1])]

C9_SingleCallMap == [doc \in {DocA, DocB} |-> C9_MapOf(doc)]

C9_Quiescent == bootstrapped /\ \A p \in Tasks : ~InBootstrap(p)

\* C9 as claimed: once all bootstrap calls have returned, the map is the map
\* a single call leaves.
C9_MapOfOneDocument ==
    C9_Quiescent => \E doc \in fetched : endpoints = C9_SingleCallMap[doc]

\* C9 as amended: once all bootstrap calls have returned, and every fetch
\* returned the same document, the map is the map a single call leaves.
C9_MapOfOneDocumentWhenFetchesAgree ==
    C9_Quiescent => \A doc \in fetched : fetched = {doc} => endpoints = C9_SingleCallMap[doc]

C9_Witness ==
    /\ C9_Quiescent
    /\ fetched = {DocA}
    /\ fetches = 2
    /\ ~fetchFailed
    /\ \A p \in Tasks : hist[p].stored

\* ---------------------------------------------------------------- C10

C10_Failure(r) == r.kind # "http" \/ r.status \notin 200..299 \/ ~r.valid

\* C10: a bootstrap call whose fetch fails (network failure, non-2xx response
\* or malformed JSON) returns FetchError, inserts nothing and leaves the flag
\* unset.
C10_FailedFetchLeavesRegistry ==
    \A p \in Tasks :
        hist[p].fetchResp # <<>> /\ C10_Failure(hist[p].fetchResp[1]) =>
            /\ pc[p] = "Done"
            /\ availability[p].kind = "Unknown"
            /\ hist[p].inserts = 0
            /\ ~hist[p].stored

\* ---------------------------------------------------------------- C11

C11_IsLowercase(k) == \A i \in 1..Len(k) : \A j \in 1..26 : k[i] # UpperLetters[j]

C11_EndsInSlash(u) == u # <<>> /\ u[Len(u)] = "/"

\* C11: in every reachable state of the registry every key of the map is
\* lowercase and no value ends in '/'.
C11_KeysLowercaseValuesTrimmed ==
    \A k \in DOMAIN endpoints :
        /\ C11_IsLowercase(k)
        /\ ~C11_EndsInSlash(endpoints[k])

\* The registry holds the entry of a service listed as "Com"/"zz" with the
\* url "r1//".
C11_Witness ==
    /\ DocA \in fetched
    /\ <<"z", "z">> \in DOMAIN endpoints
    /\ endpoints[<<"z", "z">>] = Url1
    /\ <<"c", "o", "m">> \in DOMAIN endpoints

\* ---------------------------------------------------------------- C12

\* C12 as claimed: no insert into the map happens in a state where the flag
\* is already true.
C12_NoInsertOnceFlagged ==
    \A p \in Tasks : ~hist[p].insertedOnFlag

\* C12 as amended: a call that reads the flag true inserts nothing, so calls
\* made one after the other never insert once the flag is true; an insert in
\* a state where the flag is true comes only from a call that read the flag
\* false and whose bootstrap overlapped with another call's.
C12_InsertOnFlagOnlyWhenOverlapping ==
    \A p \in Tasks :
        /\ hist[p].sawFlag => hist[p].inserts = 0 /\ pc[p] # "Inserting"
        /\ hist[p].insertedOnFlag => overlaps >= 1 /\ ~hist[p].sawFlag

C12_Witness ==
    \E p \in Tasks :
        /\ pc[p] = "Done"
        /\ hist[p].insertedOnFlag
        /\ hist[p].stored

\* ---------------------------------------------------------------- C13

C13_InsertedFor(t) ==
    UNION {{BootstrapInserts(doc)[i].value :
                i \in {j \in 1..Len(BootstrapInserts(doc)) : BootstrapInserts(doc)[j].key = t}} :
           doc \in fetched}

\* C13: a probe that starts after a bootstrap has completed, through the
\* Prober or a clone of it, reads the flag set, starts no bootstrap fetch and
\* makes no insert, and its lookup is made in the map the bootstrap filled: a
\* hit returns a url a bootstrap inserted for the tld, and a miss means that
\* a fetched document does not list the tld.
C13_ProbeAfterBootstrapReusesMap ==
    \A p \in Tasks :
        hist[p].flagAtCall /\ pc[p] # "Idle" =>
            /\ pc[p] \notin {"Fetching", "Inserting"}
            /\ pc[p] # "Bootstrapping" => hist[p].sawFlag
            /\ hist[p].fetchResp = <<>>
            /\ hist[p].inserts = 0
            /\ ~hist[p].stored
            /\ hist[p].lookup = "hit" => endpoint[p] \in C13_InsertedFor(tld[p])
            /\ hist[p].lookup = "miss" =>
                    \E doc \in fetched : tld[p] \notin DOMAIN C9_SingleCallMap[doc]

\* The clone's probe finds the endpoint that the other task's bootstrap put
\* into the map.
C13_Witness ==
    \E p \in Tasks : \E q \in Tasks \ {p} :
        /\ hist[q].stored
        /\ fetches = 1
        /\ hist[p].flagAtCall
        /\ pc[p] = "Done"
        /\ hist[p].lookup = "hit"

\* ---------------------------------------------------------------- C14

C14_HasDot(d) == \E i \in 1..Len(d) : d[i] = "."

C14_AfterLastDot(d) ==
    LET last == CHOOSE i \in 1..Len(d) :
                    d[i] = "." /\ \A j \in (i + 1)..Len(d) : d[j] # "."
    IN  SubSeq(d, last + 1, Len(d))

C14_Expected(d) ==
    IF d = <<>> \/ ~C14_HasDot(d) \/ C14_AfterLastDot(d) = <<>>
    THEN [ok |-> FALSE, tld |-> <<>>, err |-> InvalidDomainText(d)]
    ELSE [ok |-> TRUE, tld |-> to_lowercase(C14_AfterLastDot(d)), err |-> <<>>]

\* C14: extract_tld(domain) is Ok of the lowercased text after the last '.',
\* and Err(InvalidDomain) when the domain is empty, has no dot or ends in a
\* dot; extract_tld("x") is Err(InvalidDomain).
C14_ExtractTldAsSpecified ==
    \A p \in Tasks :
        hist[p].extracted # <<>> => hist[p].extracted[1] = C14_Expected(domain[p])

\* ---------------------------------------------------------------- C15

C15_InputCount(d) == Cardinality({i \in 1..Len(stream.input) : stream.input[i] = d})

C15_YieldedTotal ==
    LET RECURSIVE Sum(_)
        Sum(S) == IF S = {} THEN 0
                  ELSE LET d == CHOOSE x \in S : TRUE
                       IN  stream.yielded[d] + Sum(S \ {d})
    IN  Sum(DOMAIN stream.yielded)

\* C15: the results a stream has yielded are results of its input elements,
\* each element yielding at most one result with its own domain string, and a
\* stream that has ended has yielded exactly one result per input element,
\* repeats counted, whatever the order in which the probes finished.
C15_OneResultPerInput ==
    /\ \A d \in DOMAIN stream.yielded : stream.yielded[d] <= C15_InputCount(d)
    /\ C15_YieldedTotal + Cardinality(stream.running) = stream.next - 1
        \/ stream.state \in {"Panicked", "Dropped"}
    /\ stream.state = "Ended" =>
            /\ C15_YieldedTotal = Len(stream.input)
            /\ \A i \in 1..Len(stream.input) :
                    /\ stream.input[i] \in DOMAIN stream.yielded
                    /\ stream.yielded[stream.input[i]] = C15_InputCount(stream.input[i])

\* A stream over the longest input, with repeats, has ended.
C15_Witness ==
    /\ stream.state = "Ended"
    /\ Len(stream.input) = MaxInputs
    /\ stream.yielded[DomCom] >= 2

\* ---------------------------------------------------------------- C16

\* C16: at every moment at most max_concurrent_per_endpoint * 10 probes of a
\* stream are started and not yet yielded, and a further probe is started
\* only by a poll of the consumer that finds a slot of the window free.
C16_WindowBound ==
    /\ [](Cardinality(stream.running) <= Window(config))
    /\ [][stream.next' > stream.next =>
            /\ PollNext
            /\ Cardinality(stream.running) < Window(config)]_vars

\* The window is full and input is waiting.
C16_Witness ==
    /\ stream.state = "Live"
    /\ Window(config) > 0
    /\ Cardinality(stream.running) = Window(config)
    /\ stream.next <= Len(stream.input)

\* ---------------------------------------------------------------- C17

\* C17: for every ProbeConfig, a stream over a finite input whose consumer
\* keeps polling it eventually ends, and once it has ended it yields nothing
\* more.
C17_StreamEndsAndStaysEnded ==
    /\ <>(stream.state = "Ended")
    /\ [][stream.state = "Ended" =>
            stream.state' = "Ended" /\ stream.yielded' = stream.yielded]_vars

\* The part of C17 that holds for every configuration: a stream that has
\* ended stays ended and yields nothing more.
C17_EndedIsFinal ==
    [][stream.state = "Ended" =>
            stream.state' = "Ended" /\ stream.yielded' = stream.yielded]_vars

\* The configurations for which a polled stream ends.
C17_EndsWhenWindowAndRatePositive ==
    config.max_concurrent_per_endpoint > 0 /\ config.max_rate_per_endpoint > 0
        => <>(stream.state = "Ended")

\* ---------------------------------------------------------------- C18

\* The verdict of the call of p when it runs alone and its requests are
\* answered as they were: its bootstrap fetch, had it sent one, with the
\* document (DocA), its RDAP request and its WHOIS exchange as recorded.
C18_AsAlone(p) ==
    LET r == extract_tld(domain[p])
        map == C9_SingleCallMap[DocA]
    IN  IF ~r.ok THEN availability[p] = Unknown(r.err)
        ELSE IF r.tld \in DOMAIN map
        THEN /\ hist[p].rdapOutcome # <<>>
             /\ LET v == check_rdap_verdict(hist[p].rdapOutcome[1])
                IN  IF FallsBack(v, config)
                    THEN /\ hist[p].whoisVerdict # <<>>
                         /\ availability[p] = hist[p].whoisVerdict[1]
                    ELSE availability[p] = v
        ELSE /\ hist[p].rdapOutcome = <<>>
             /\ IF config.whois_fallback
                THEN /\ hist[p].whoisVerdict # <<>>
                     /\ availability[p] = hist[p].whoisVerdict[1]
                ELSE availability[p] = Unknown(NoEndpointText(r.tld))

\* C18: the verdict of a probe is the verdict it gets alone, given the same
\* answers to its own requests, also when other probes on the same Prober
\* fail before it or next to it (bootstrap error, invalid domain, RDAP error
\* status or timeout).
C18_VerdictAsAlone ==
    \A p \in Tasks :
        pc[p] = "Done" =>
            IF hist[p].fetchResp # <<>> /\ hist[p].fetchResp[1].kind = "error"
            THEN availability[p] =
                    Unknown(BootstrapFailedText(hist[p].fetchResp[1].err))
            ELSE IF hist[p].fetchResp \in {<<>>, <<FetchBody(200, DocA)>>}
            THEN C18_AsAlone(p)
            ELSE TRUE

\* ---------------------------------------------------------------- C19

\* C19: after the caller dropped the future of a call at an await, the call
\* starts no further network operation and yields no result; the flag is
\* true only if the map holds every tld of one fetched document; and limiter
\* entries that exist remain.
C19_DropLeavesRegistryConsistent ==
    /\ [](bootstrapped =>
            \E doc \in fetched : DOMAIN C9_SingleCallMap[doc] \subseteq DOMAIN endpoints)
    /\ [][/\ \A p \in Tasks :
                hist[p].dropped /\ hist'[p].dropped =>
                    /\ pc'[p] = "Idle"
                    /\ hist'[p] = hist[p]
                    /\ availability'[p] = availability[p]
           /\ DOMAIN limiters \subseteq DOMAIN limiters'
           /\ \A S \in SUBSET Tasks : DropFutures(S) =>
                    /\ endpoints' = endpoints
                    /\ bootstrapped' = bootstrapped
                    /\ limiters' = limiters]_vars

\* A call was dropped while its RDAP request was in flight, after the
\* registry was bootstrapped and the limiter of its endpoint made.
C19_Witness ==
    \E p \in Tasks :
        /\ hist[p].dropped
        /\ pc[p] = "Idle"
        /\ hist[p].rdapSent = 1
        /\ hist[p].rdapOutcome = <<>>
        /\ bootstrapped
        /\ endpoint[p] \in DOMAIN limiters

\* ---------------------------------------------------------------- C20

\* C20: there is at most one limiter per endpoint string: a limiter is made
\* only for an endpoint that has none, the tasks that call acquire for the
\* same endpoint get the entry that is there, and an entry is never removed
\* or replaced.
C20_OneLimiterPerEndpoint ==
    [][/\ DOMAIN limiters \subseteq DOMAIN limiters'
       /\ \A p \in Tasks :
            /\ hist'[p].created > hist[p].created => endpoint[p] \notin DOMAIN limiters
            /\ GetOrCreate(p) =>
                    /\ \A e \in DOMAIN limiters : limiters'[e] = limiters[e]
                    /\ pc'[p] = "UntilReady" => endpoint[p] \in DOMAIN limiters']_vars

\* Two tasks have used the limiter of one endpoint, which one of them made.
C20_Witness ==
    \E p \in Tasks : \E q \in Tasks \ {p} :
        /\ hist[p].created = 1
        /\ hist[q].created = 0
        /\ hist[p].acquired # <<>>
        /\ hist[q].acquired = hist[p].acquired
        /\ Cardinality(DOMAIN limiters) = 1

\* ---------------------------------------------------------------- C21

\* C21: within one call of probe_one at most one bootstrap fetch, at most one
\* RDAP request and at most one WHOIS query are issued, whatever their
\* outcomes: an operation that answered, failed or timed out is not issued
\* again by the same call.
C21_NoRetry ==
    \A p \in Tasks :
        /\ hist[p].fetchSent <= 1
        /\ hist[p].rdapSent <= 1
        /\ hist[p].whoisSent <= 1
        /\ hist[p].whoisCalls <= 1
        /\ hist[p].fetchResp # <<>> => hist[p].fetchSent = 1 /\ pc[p] # "Fetching"
        /\ hist[p].rdapOutcome # <<>> => hist[p].rdapSent = 1 /\ pc[p] \notin {"RdapSend", "Rdap"}
        /\ hist[p].whoisVerdict # <<>> => pc[p] = "Done"

\* A call fetched the document, got a timeout from RDAP and an error from
\* WHOIS, and returned after one request of each kind.
C21_Witness ==
    \E p \in Tasks :
        /\ pc[p] = "Done"
        /\ hist[p].fetchSent = 1
        /\ hist[p].rdapSent = 1
        /\ hist[p].rdapOutcome = <<RdapTimeout>>
        /\ hist[p].whoisSent = 1
        /\ availability[p].kind = "Unknown"
        /\ availability[p].reason # <<"WHOIS timeout">>
        /\ availability[p].reason # <<"Ambiguous WHOIS response">>

\* ---------------------------------------------------------------- C22

C22_IsSubseq(a, b) ==
    LET RECURSIVE Sub(_, _)
        Sub(i, j) ==
            IF i > Len(a) THEN TRUE
            ELSE IF j > Len(b) THEN FALSE
            ELSE IF a[i] = b[j] THEN Sub(i + 1, j + 1)
            ELSE Sub(i, j + 1)
    IN  Sub(1, 1)

\* C22: for every response text, lines with blanks before or after, lines of
\* blanks and mixed case included, the list fetch_iana_tlds returns has no
\* entry that starts with "xn--" or "#", every entry is lowercase and not
\* empty, and the entries are the trimmed lowercased input lines in the order
\* of the text.
C22_TldListClean ==
    cli.call = "fetch_iana_tlds" /\ cli.returned /\ cli.result.ok =>
        LET out == cli.result.tlds
            ls == lines(cli.response.text)
        IN  /\ \A i \in 1..Len(out) :
                    /\ ~starts_with(out[i], Punycode)
                    /\ ~starts_with(out[i], <<"#">>)
                    /\ C11_IsLowercase(out[i])
                    /\ out[i] # <<>>
            /\ C22_IsSubseq(out, [i \in 1..Len(ls) |-> to_lowercase(trim(ls[i]))])

\* ---------------------------------------------------------------- C24

\* C24: for every TLD list and every config, the list apply_config_to_tlds
\* returns holds no TLD that equals, letter case aside, an entry of the
\* config's never list, also when the TLD is an entry of always as well.
C24_NeverListExcluded ==
    cli.call = "apply_config_to_tlds" /\ cli.returned =>
        \A i \in 1..Len(cli.result) : \A j \in 1..Len(cli.config.never) :
            to_lowercase(cli.result[i]) # to_lowercase(cli.config.never[j])

\* ---------------------------------------------------------------- C23

\* The text holds the marker at some position, letter case aside.
C23_Holds(text, marker) ==
    \E i \in 1..Len(text) :
        /\ i + Len(marker) - 1 <= Len(text)
        /\ \A k \in 1..Len(marker) : LowerChar(text[i + k - 1]) = marker[k]

C23_Free(text) ==
    \/ C23_Holds(text, <<"n", "o", " ", "m", "a", "t", "c", "h">>)
    \/ C23_Holds(text, <<"n", "o", "t", " ", "f", "o", "u", "n", "d">>)
    \/ C23_Holds(text, <<"n", "o", " ", "d", "a", "t", "a", " ", "f", "o", "u", "n", "d">>)
    \/ C23_Holds(text, <<"n", "o", " ", "e", "n", "t", "r", "i", "e", "s", " ",
                         "f", "o", "u", "n", "d">>)

C23_Registered(text) ==
    \/ C23_Holds(text, <<"d", "o", "m", "a", "i", "n", " ", "n", "a", "m", "e", ":">>)
    \/ C23_Holds(text, <<"r", "e", "g", "i", "s", "t", "r", "a", "r", ":">>)

\* C23: a complete WHOIS response is classified by case-insensitive substring
\* search, the free markers first: Available if it holds "no match", "not
\* found", "no data found" or "no entries found"; else Taken if it holds
\* "domain name:" or "registrar:"; else Unknown "Ambiguous WHOIS response".
\* An I/O error gives Unknown "WHOIS error: <err>", a timeout Unknown "WHOIS
\* timeout".  The verdict of check_whois is the result of the call.
C23_WhoisVerdictByTable ==
    \A p \in Tasks :
        hist[p].whoisOutcome # <<>> =>
            LET o == hist[p].whoisOutcome[1]
                v == hist[p].whoisVerdict[1]
            IN  /\ o.kind = "text" /\ C23_Free(o.text) => v = Available
                /\ o.kind = "text" /\ ~C23_Free(o.text) /\ C23_Registered(o.text) =>
                        v = Taken
                /\ o.kind = "text" /\ ~C23_Free(o.text) /\ ~C23_Registered(o.text) =>
                        v = Unknown(<<"Ambiguous WHOIS response">>)
                /\ o.kind = "error" => v = Unknown(<<"WHOIS error: ">> \o o.err)
                /\ o.kind = "timeout" => v = Unknown(<<"WHOIS timeout">>)
                /\ pc[p] = "Done" /\ availability[p] = v

\* A response that holds a registration marker and a free marker, in upper
\* case, was classified as Available.
C23_Witness ==
    \E p \in Tasks :
        /\ pc[p] = "Done"
        /\ hist[p].whoisOutcome = <<WhoisText(TextBoth)>>
        /\ availability[p] = Available

\* ---------------------------------------------------------------- C25

\* The state of the probe of task p, in the words of the state machine.  A
\* call that panicked in acquire stopped inside RateLimitWait.
C25_State(p) ==
    CASE pc[p] = "Idle" -> "Start"
      [] pc[p] \in {"Bootstrapping", "Fetching", "Inserting"} -> "Bootstrapping"
      [] pc[p] = "TldExtraction" -> "TldExtraction"
      [] pc[p] = "EndpointLookup" -> "EndpointLookup"
      [] pc[p] \in {"RateLimitWait", "UntilReady", "Panicked"} -> "RateLimitWait"
      [] pc[p] \in {"RdapSend", "Rdap"} -> "Rdap"
      [] pc[p] = "WhoisFallback" -> "WhoisFallback"
      [] pc[p] = "WhoisDirect" -> "WhoisDirect"
      [] pc[p] = "WhoisIO" ->
            IF hist[p].lookup = "miss" THEN "WhoisDirect" ELSE "WhoisFallback"
      [] pc[p] = "Done" -> "Done"

C25_Moves ==
    { <<"Start", "Bootstrapping">>, <<"Done", "Bootstrapping">>,
      <<"Bootstrapping", "TldExtraction">>, <<"Bootstrapping", "Done">>,
      <<"TldExtraction", "EndpointLookup">>, <<"TldExtraction", "Done">>,
      <<"EndpointLookup", "RateLimitWait">>, <<"EndpointLookup", "WhoisDirect">>,
      <<"EndpointLookup", "Done">>,
      <<"RateLimitWait", "Rdap">>,
      <<"Rdap", "WhoisFallback">>, <<"Rdap", "Done">>,
      <<"WhoisFallback", "Done">>, <<"WhoisDirect", "Done">> }

\* C25: a probe moves only along Start -> Bootstrapping -> TldExtraction ->
\* EndpointLookup -> (RateLimitWait -> Rdap -> optional WhoisFallback |
\* WhoisDirect) -> Done, never back and never past a state; a new probe
\* starts from Done only by a new call; a return from Bootstrapping,
\* TldExtraction or EndpointLookup carries an Unknown verdict; and the domain
\* is validated only after the bootstrap of the call has returned Ok.
C25_StateMachine ==
    /\ [](\A p \in Tasks :
            /\ hist[p].extracted # <<>> => hist[p].sawFlag \/ hist[p].stored
            /\ C25_State(p) = "Bootstrapping" =>
                    hist[p].extracted = <<>> /\ hist[p].lookup = "none")
    /\ [][\A p \in Tasks :
            C25_State(p)' # C25_State(p) =>
                /\ <<C25_State(p), C25_State(p)'>> \in C25_Moves
                /\ C25_State(p) \in {"Start", "Done"} => \E d \in Domains : Call(p, d)
                /\ C25_State(p)' = "Done"
                   /\ C25_State(p) \in {"Bootstrapping", "TldExtraction", "EndpointLookup"}
                        => availability'[p].kind = "Unknown"]_vars

\* A probe of a domain that is not valid fetched the bootstrap document before
\* it returned Unknown from TldExtraction.
C25_Witness ==
    \E p \in Tasks :
        /\ pc[p] = "Done"
        /\ domain[p] = <<"x", ".">>
        /\ hist[p].fetchSent = 1
        /\ hist[p].stored
        /\ hist[p].lookup = "none"
        /\ availability[p] = Unknown(InvalidDomainText(domain[p]))

\* ---------------------------------------------------------------- C26

C26_Table ==
    { <<"c", "o", "m">>, <<"n", "e", "t">>, <<"o", "r", "g">>, <<"i", "o">>,
      <<"d", "e", "v">>, <<"a", "p", "p">>, <<"a", "i">>, <<"c", "o">>, <<"m", "e">> }

\* The lowercased text after the last dot, the whole domain when it has none.
C26_Tld(d) == to_lowercase(IF C14_HasDot(d) THEN C14_AfterLastDot(d) ELSE d)

C26_Verdict(d) == Unknown(<<"No WHOIS server for .">> \o C26_Tld(d))

\* C26: for a domain whose tld is not in the WHOIS table, check_whois opens
\* no connection and returns Unknown "No WHOIS server for .<tld>" with the
\* lowercased tld; a probe of such a domain that finds no registry entry,
\* with whois_fallback set, returns exactly that verdict.
C26_NoWhoisServerVerdict ==
    \A p \in Tasks :
        C26_Tld(domain[p]) \notin C26_Table =>
            /\ hist[p].whoisSent = 0
            /\ pc[p] # "WhoisIO"
            /\ hist[p].whoisCalls = 1 =>
                    /\ hist[p].whoisVerdict = <<C26_Verdict(domain[p])>>
                    /\ pc[p] = "Done"
                    /\ availability[p] = C26_Verdict(domain[p])
            /\ pc[p] = "Done" /\ hist[p].lookup = "miss" /\ config.whois_fallback =>
                    availability[p] = C26_Verdict(domain[p])

\* The probe of "a.Q", which has neither a registry entry nor a WHOIS server,
\* returned the verdict with the tld "q" and sent nothing to a WHOIS server.
C26_Witness ==
    \E p \in Tasks :
        /\ pc[p] = "Done"
        /\ domain[p] = DomQ
        /\ config.whois_fallback
        /\ hist[p].lookup = "miss"
        /\ hist[p].whoisSent = 0
        /\ availability[p] = Unknown(<<"No WHOIS server for .", "q">>)

\* ---------------------------------------------------------------- C27

\* The tlds get_endpoint is asked for: listed and not listed, in every case.
C27_Tlds ==
    { <<"c", "o", "m">>, <<"C", "O", "M">>, <<"C", "o", "m">>, <<"z", "z">>,
      <<"Z", "z">>, <<"i", "o">>, <<"I", "O">>, <<"q">> }

\* The url without the slashes at its end.
C27_Stripped(u) ==
    LET n == CHOOSE k \in 0..Len(u) :
                /\ k > 0 => u[k] # "/"
                /\ \A j \in (k + 1)..Len(u) : u[j] = "/"
    IN  SubSeq(u, 1, n)

\* The services of the document that list t, letter case aside, and have a url.
C27_Listing(doc, t) ==
    {i \in 1..Len(doc) :
        /\ Len(doc[i][2]) > 0
        /\ \E j \in 1..Len(doc[i][1]) : to_lowercase(doc[i][1][j]) = to_lowercase(t)}

C27_Expected(doc, t) ==
    IF C27_Listing(doc, t) = {} THEN [some |-> FALSE, url |-> <<>>]
    ELSE LET last == CHOOSE i \in C27_Listing(doc, t) :
                        \A h \in C27_Listing(doc, t) : h <= i
         IN  [some |-> TRUE, url |-> C27_Stripped(doc[last][2][1])]

\* What get_endpoint is to return for each tld after a bootstrap from doc.
C27_ExpectedOf == [doc \in {DocA, DocB} |-> [t \in C27_Tlds |-> C27_Expected(doc, t)]]

\* C27: after a successful bootstrap from a document, for every tld t,
\* get_endpoint(t) is the first url, without trailing '/', of the last
\* service that lists t (letter case aside) and has a url, and is absent when
\* there is no such service; the answer is the same for every letter case
\* of t, namely the answer for t in lower case.
C27_GetEndpointAfterBootstrap ==
    bootstrapped /\ (\A p \in Tasks : ~InBootstrap(p)) =>
        \A doc \in fetched : fetched = {doc} =>
            /\ \A t \in C27_Tlds : get_endpoint(endpoints, t) = C27_ExpectedOf[doc][t]
            /\ \A t \in C27_Tlds :
                    get_endpoint(endpoints, t) = get_endpoint(endpoints, to_lowercase(t))

\* The registry was bootstrapped from the document that lists com in two
\* services, zz with a url ending in "//", and io in a service without url.
C27_Witness ==
    /\ bootstrapped
    /\ fetched = {DocA}
    /\ \A p \in Tasks : ~InBootstrap(p)
    /\ get_endpoint(endpoints, <<"C", "O", "M">>) = [some |-> TRUE, url |-> Url2]
    /\ get_endpoint(endpoints, <<"Z", "z">>) = [some |-> TRUE, url |-> Url1]
    /\ ~get_endpoint(endpoints, <<"i", "o">>).some

\* ---------------------------------------------------------------- C28

\* The keys a bootstrap from the document inserts.
C28_KeysOf ==
    [doc \in {DocA, DocB} |->
        {BootstrapInserts(doc)[i].key : i \in 1..Len(BootstrapInserts(doc))}]
C28_Keys(doc) == C28_KeysOf[doc]

\* A document of which every pair has been inserted, and whose keys the map
\* holds.
C28_Complete(doc) == doc \in inserted /\ C28_Keys(doc) \subseteq DOMAIN endpoints

\* C28: a probe makes its endpoint lookup only in a registry that holds a
\* complete bootstrap document: when get_endpoint is called in probe_one,
\* every pair of some fetched document has been inserted; and a lookup that
\* misses misses a tld that a completely inserted document does not list,
\* also while another probe's bootstrap is filling the map.
C28_LookupOnCompleteDocument ==
    \A p \in Tasks :
        /\ pc[p] = "EndpointLookup" \/ hist[p].lookup # "none" =>
                \E doc \in fetched : C28_Complete(doc)
        /\ hist[p].lookup = "miss" =>
                \E doc \in fetched : C28_Complete(doc) /\ tld[p] \notin C28_Keys(doc)

\* A probe of "a.zz" missed while the other task was in the middle of the
\* inserts of the document that lists zz.
C28_Witness ==
    \E p \in Tasks : \E q \in Tasks \ {p} :
        /\ hist[p].lookup = "miss"
        /\ tld[p] = <<"z", "z">>
        /\ pc[q] = "Inserting"
        /\ OwnDocument(q) = DocA
        /\ hist[q].inserts = 1
        /\ <<"z", "z">> \notin DOMAIN endpoints

\* ---------------------------------------------------------------- C29

C29_RdapStatus(p, status) ==
    /\ hist[p].rdapOutcome # <<>>
    /\ hist[p].rdapOutcome[1].kind = "http"
    /\ hist[p].rdapOutcome[1].status = status

C29_WhoisAnswered(p) ==
    hist[p].whoisOutcome # <<>> /\ hist[p].whoisOutcome[1].kind = "text"

C29_FreeEvidence(p) ==
    \/ C29_RdapStatus(p, 404)
    \/ C29_WhoisAnswered(p) /\ C23_Free(hist[p].whoisOutcome[1].text)

C29_TakenEvidence(p) ==
    \/ C29_RdapStatus(p, 200)
    \/ C29_WhoisAnswered(p) /\ C23_Registered(hist[p].whoisOutcome[1].text)

\* The call's bootstrap returned Err, or its domain is invalid.
C29_FailedBeforeLookup(p) ==
    \/ hist[p].fetchResp # <<>> /\ ~FetchOk(hist[p].fetchResp[1])
    \/ hist[p].extracted # <<>> /\ ~hist[p].extracted[1].ok

\* The registry had no endpoint, or RDAP timed out, failed or answered with a
\* status other than 200 and 404.
C29_FailedAtRdap(p) ==
    \/ hist[p].lookup = "miss"
    \/ hist[p].rdapOutcome # <<>> /\ ~C29_RdapStatus(p, 200) /\ ~C29_RdapStatus(p, 404)

C29_FailedAtWhois(p) ==
    hist[p].whoisOutcome # <<>> /\ hist[p].whoisOutcome[1].kind # "text"

C29_OnEvidence(p) ==
    /\ availability[p] = Available => C29_FreeEvidence(p)
    /\ availability[p] = Taken => C29_TakenEvidence(p)

C30_ResultsOfCurrentSearch ==
    app.searches # <<>> =>
        \A t \in DOMAIN app.results :
            app.results[t].of = app.searches[Len(app.searches)].query

\* ---------------------------------------------------------------- C31

\* The selection, when there is one and the filtered list has rows, is the
\* index of one of them.
C31_SelectedRowExists ==
    LET rows == get_filtered_results(app)
    IN  rows # <<>> /\ app.list_state # <<>> => app.list_state[1] < Len(rows)

\* No scroll operation has subtracted from a zero length.
C31_NoUnderflow == ~app.underflow /\ app.phase # "Panicked"

\* C31: in the TUI, after every sequence of scroll, page, home/end and filter
\* keys and of result arrivals, the selected index is an index of the list
\* that is displayed (the filtered rows) whenever that list has rows, and no
\* scroll operation underflows when the TLD list is empty.
C31_SelectionWithinDisplayedList ==
    app.phase \in {"Running", "Panicked", "Quit"} =>
        C31_SelectedRowExists /\ C31_NoUnderflow

====
